---- MODULE Spec2Model ----
(***************************************************************************)
(* Model of the Yupoo category crawl-and-download engine                   *)
(* (src/download_yupoo_category.py).                                       *)
(*                                                                         *)
(* Pure functions (download_image, authenticate_if_needed,                 *)
(* extract_products_from_page) are operators; each has a specification     *)
(* whose Init draws the inputs and whose action applies the operator.      *)
(* The category worker (main / process_product / cross-page consolidation) *)
(* is the state machine Spec; Spec_SamePage is the same machine on a site   *)
(* whose first page lists two names with one directory name.  The          *)
(* orchestrator that starts one worker process per configured collection   *)
(* (src/download_multiple_collections.py) is the state machine Spec_Orch;  *)
(* its category name resolution on its own is Spec_Name.  Spec_Run is one  *)
(* uninterrupted run of the worker under weak fairness; Spec_OrchFair and  *)
(* Spec_OrchAllExit are the orchestrator under weak fairness.  Spec_Urls   *)
(* applies the image URL collection of a product page, Spec_Online the     *)
(* product extractor of src/analyze_online_vs_local.py, and Spec_SameName  *)
(* resolves the category name of one page in orchestrator and worker.      *)
(***************************************************************************)
EXTENDS Integers, Sequences, FiniteSets, TLC

VARIABLES
    \* ---- download_image, called on its own ----
    dl_in,      \* arguments and the per-attempt behaviour of the network
    dl_out,     \* what the call returned and what it left on disk
    \* ---- authenticate_if_needed, called on its own ----
    auth_in,    \* password argument and the replies of the site
    auth_out,   \* what the call returned and what it did to the session
    \* ---- extract_products_from_page, called on its own ----
    ex_in,      \* the album links of a listing page, in document order
    ex_out,     \* the tuple the call returned
    \* ---- the category worker ----
    run,                    \* number of the worker run over the output tree
    pc,                     \* where the worker is
    password,               \* a password is configured
    start_page,             \* first page of the configured range
    end_page,               \* last page of the configured range
    auth_failure,           \* the site's answers in the authentication that failed
    listing,                \* page -> product names the site lists (once served)
    detail,                 \* album -> image URLs of the detail page (once served)
    base_dir,               \* yupoo_downloads/<category> exists
    dirs,                   \* the product directories, <<page, name>>
    files,                  \* path -> chunks on disk
    processed_products,     \* sanitized name -> page of the registered directory
    page,                   \* page of the page loop
    products,               \* products of the current page
    idx,                    \* product of the product loop
    cur_dir,                \* directory the current product's images go to
    image_urls,             \* image URLs of the current product
    img_i,                  \* image of the image loop
    count,                  \* downloaded / new_images_count
    cons_before,            \* the files on disk when the consolidation began
    img_event,              \* what the last image step did
    fetch,                  \* what the last request for a product's image URLs gave
    total_products,
    total_images,
    failed_products,
    total_duplicates,
    cross_page_duplicates,
    fetched,                \* the requests for listing pages of the page loop, in order
    summaries,              \* final summaries printed by this run
    faults,                 \* failures so far
    \* ---- the orchestrator (download_multiple_collections.py) ----
    COLLECTIONS,            \* the configured job records
    orch_pc,                \* where the orchestrator is
    orch_idx,               \* idx of the loop over COLLECTIONS
    category_names,         \* category_id -> resolved name
    resolved,               \* jobs whose name was resolved, in order
    log_handles,            \* the log handles opened: path, open/closed, times closed
    workers,                \* the processes spawned: job, state, returncode, output root
    processes,              \* the proc_info records: worker and handle
    scan,                   \* what is left of the copy processes[:] being polled
    interrupted,            \* KeyboardInterrupt was raised
    reports,                \* the exit statuses printed by the wait loop, in order
    \* ---- a pure function called on its own ----
    fn_in,      \* its arguments
    fn_out      \* what it returned

dlVars == <<dl_in, dl_out>>

authVars == <<auth_in, auth_out>>

exVars == <<ex_in, ex_out>>

siteVars == <<listing, detail>>

fsVars == <<base_dir, dirs, files>>

pageVars == <<page, products, idx>>

imageVars == <<cur_dir, image_urls, img_i, count, cons_before, img_event, fetch>>

statVars == <<total_products, total_images, failed_products, total_duplicates,
              cross_page_duplicates>>

mainVars == <<run, pc, password, start_page, end_page, auth_failure, siteVars, fsVars, processed_products,
              pageVars, imageVars, statVars, fetched, summaries, faults>>

orchVars == <<COLLECTIONS, orch_pc, orch_idx, category_names, resolved, log_handles,
              workers, processes, scan, interrupted, reports>>

fnVars == <<fn_in, fn_out>>

nonOrchVars == <<dl_in, dl_out, auth_in, auth_out, ex_in, ex_out, mainVars, fnVars>>

vars == <<dl_in, dl_out, auth_in, auth_out, ex_in, ex_out, mainVars, orchVars, fnVars>>

(***************************************************************************)
(* Bounds and program constants                                            *)
(***************************************************************************)
\* default of the retries parameter
MAX_RETRIES == 3
\* largest retries argument tried when download_image is called on its own
MaxRetriesArg == 3
\* largest number of 8 KB chunks a response body delivers
MaxChunks == 3
\* largest number of album links on a listing page given to the extractor
MaxLinks == 3

(***************************************************************************)
(* Files: a destination path either does not exist or holds `size` chunks. *)
(***************************************************************************)
NoFile == [exists |-> FALSE, size |-> 0]

FileOf(n) == [exists |-> TRUE, size |-> n]

\* a handler that leaves the partial file where it is
unlink_if_exists_kept(f) == f

\* if save_path.exists(): save_path.unlink()
unlink_if_exists(f) == NoFile

(***************************************************************************)
(* download_image                                                          *)
(*                                                                         *)
(* What one attempt meets on the network:                                  *)
(*   request_error      session.get raises ConnectionError / Timeout       *)
(*   http_error         raise_for_status raises HTTPError                  *)
(*   stream_conn_error  ChunkedEncodingError / ConnectionError after       *)
(*                      `chunks` chunks were written                       *)
(*   stream_error       any other exception after `chunks` chunks          *)
(*   complete           the body ends after `chunks` chunks (0 = empty)    *)
(***************************************************************************)
Outcomes ==
    {[kind |-> "request_error", chunks |-> 0], [kind |-> "http_error", chunks |-> 0]}
    \cup [kind : {"stream_conn_error", "stream_error", "complete"}, chunks : 0..MaxChunks]

\* The file after the try block of one attempt (lines 447-474), before any handler.
\* open(save_path, 'wb') creates or truncates the file; each chunk appends.
file_after_try(f, o) ==
    IF o.kind \in {"request_error", "http_error"} THEN f ELSE FileOf(o.chunks)

\* TRUE when the try block reaches `return True` (line 472).
attempt_succeeds(f, o) ==
    /\ o.kind = "complete"
    /\ file_after_try(f, o).exists
    /\ file_after_try(f, o).size > 0

\* Which except clause takes the failure: the connection clause (476-498) or
\* the generic one (499-516).  An empty file raises a plain Exception.
handler_of(o) ==
    IF o.kind \in {"request_error", "stream_conn_error"} THEN "connection" ELSE "generic"

\* a handler that always sleeps one second
wait_time_flat(o, attempt) == 1

\* seconds slept before the next attempt (lines 482-483, 501)
wait_time(o, attempt) ==
    IF handler_of(o) = "connection" THEN (attempt + 1) * 2 ELSE 1

\* One iteration of `for attempt in range(retries)`.
\* result: "True" / "False" (returned) or "continue".
attempt_step(f, o, attempt, retries) ==
    IF attempt_succeeds(f, o)
    THEN [file |-> file_after_try(f, o), result |-> "True", slept |-> 0]
    ELSE IF attempt < retries - 1
         THEN [file |-> unlink_if_exists(file_after_try(f, o)), result |-> "continue",
               slept |-> wait_time(o, attempt)]
         ELSE [file |-> unlink_if_exists(file_after_try(f, o)), result |-> "False",
               slept |-> 0]

\* The loop from iteration `attempt` on; outs[attempt + 1] is what that iteration meets.
RECURSIVE download_loop(_, _, _, _, _)
download_loop(f, outs, attempt, retries, slept) ==
    IF attempt >= retries
    THEN [ret |-> FALSE, file |-> f, attempts |-> attempt, slept |-> slept]   \* line 518
    ELSE LET s == attempt_step(f, outs[attempt + 1], attempt, retries)
         IN  IF s.result = "continue"
             THEN download_loop(s.file, outs, attempt + 1, retries, slept + s.slept)
             ELSE [ret |-> (s.result = "True"), file |-> s.file,
                   attempts |-> attempt + 1, slept |-> slept]

download_image(f, outs, retries) == download_loop(f, outs, 0, retries, 0)

(***************************************************************************)
(* authenticate_if_needed                                                  *)
(*                                                                         *)
(* What the site answers to the three requests the function can make:      *)
(*   probe    GET page 1:  exception | http_error | locked | unlocked      *)
(*   reply    GET the authentication endpoint:                             *)
(*            exception | http_error | json_valid (passwordValid true) |   *)
(*            json_invalid (flag false or missing) | json_other (JSON      *)
(*            whose shape makes .get raise AttributeError) | not_json      *)
(*   reprobe  GET page 1 again:  exception | locked | unlocked             *)
(***************************************************************************)
Probes == {"exception", "http_error", "locked", "unlocked"}

Replies == {"exception", "http_error", "json_valid", "json_invalid", "json_other", "not_json"}

Reprobes == {"exception", "locked", "unlocked"}

AuthNets == [probe : Probes, reply : Replies, reprobe : Reprobes]

\* a detector that sees a lock on every page
is_password_protected_always(soup) == TRUE

\* is_password_protected(soup), on what the page shows
is_password_protected(soup) == soup = "locked"

\* session.cookies.set('indexlockcode', ...) followed by the re-probe of page 1
\* (lines 105-111 and 116-121).  exc is the exception leaving the block.
auth_set_cookie_and_reprobe(requests, net) ==
    IF net.reprobe = "exception"
    THEN [exc |-> "RequestException", ret |-> "none", cookie |-> TRUE,
          requests |-> Append(requests, "reprobe")]
    ELSE IF ~is_password_protected(net.reprobe)
         THEN [exc |-> "none", ret |-> "True", cookie |-> TRUE,
               requests |-> Append(requests, "reprobe")]
         ELSE [exc |-> "none", ret |-> "none", cookie |-> TRUE,
               requests |-> Append(requests, "reprobe")]

\* a reply parser that does not read the validity flag
auth_try_json_any_flag(requests, net) ==
    IF net.reply = "not_json"
    THEN [exc |-> "ValueError", ret |-> "none", cookie |-> FALSE, requests |-> requests]
    ELSE IF net.reply = "json_other"
    THEN [exc |-> "AttributeError", ret |-> "none", cookie |-> FALSE, requests |-> requests]
    ELSE auth_set_cookie_and_reprobe(requests, net)

\* the inner try block, lines 99-111
auth_try_json(requests, net) ==
    IF net.reply = "not_json"
    THEN [exc |-> "ValueError", ret |-> "none", cookie |-> FALSE, requests |-> requests]
    ELSE IF net.reply = "json_other"
    THEN [exc |-> "AttributeError", ret |-> "none", cookie |-> FALSE, requests |-> requests]
    ELSE IF net.reply = "json_valid"
    THEN auth_set_cookie_and_reprobe(requests, net)
    ELSE [exc |-> "none", ret |-> "none", cookie |-> FALSE, requests |-> requests]

\* except (ValueError, KeyError), lines 112-121
auth_except_not_json(r, net) ==
    IF r.exc \in {"ValueError", "KeyError"}
    THEN auth_set_cookie_and_reprobe(r.requests, net)
    ELSE r

\* the body of the outer try, lines 63-123
auth_body(net) ==
    IF net.probe \in {"exception", "http_error"}
    THEN [exc |-> "RequestException", ret |-> "none", cookie |-> FALSE,
          requests |-> <<"probe">>]
    ELSE IF ~is_password_protected(net.probe)
    THEN [exc |-> "none", ret |-> "True", cookie |-> FALSE, requests |-> <<"probe">>]
    ELSE IF net.reply \in {"exception", "http_error"}
    THEN [exc |-> "RequestException", ret |-> "none", cookie |-> FALSE,
          requests |-> <<"probe", "auth">>]
    ELSE LET r == auth_except_not_json(auth_try_json(<<"probe", "auth">>, net), net)
         IN  IF r.exc = "none" /\ r.ret = "none"
             THEN [r EXCEPT !.ret = "False"]       \* line 123
             ELSE r

\* except Exception: return False, lines 125-127
auth_except_all(r) ==
    IF r.exc # "none" THEN [r EXCEPT !.exc = "none", !.ret = "False"] ELSE r

\* ret: the value returned; raised: an exception left the function;
\* cookie: the function set indexlockcode; requests: the requests it made.
authenticate_if_needed(pw, net) ==
    IF ~pw
    THEN [ret |-> TRUE, raised |-> FALSE, cookie |-> FALSE, requests |-> <<>>]   \* line 61
    ELSE LET r == auth_except_all(auth_body(net))
         IN  [ret |-> (r.ret = "True"), raised |-> (r.exc # "none"),
              cookie |-> r.cookie, requests |-> r.requests]

(***************************************************************************)
(* Specification of authenticate_if_needed on its own                      *)
(***************************************************************************)
AuthIdleIn == [password |-> FALSE, net |-> [probe |-> "unlocked", reply |-> "json_valid",
                                              reprobe |-> "unlocked"]]

AuthIdleOut == [returned |-> FALSE, ret |-> FALSE, raised |-> FALSE, cookie |-> FALSE,
                requests |-> <<>>]

(***************************************************************************)
(* Text.  A Python str is a sequence of one-character strings.             *)
(***************************************************************************)
Digits == {"0", "1", "2", "3", "4", "5", "6", "7", "8", "9"}

\* re.match(r'^\d{1,2}$', s)
is_small_number(s) == Len(s) \in {1, 2} /\ \A i \in 1..Len(s) : s[i] \in Digits

\* s.startswith('http')
startswith_http(s) == Len(s) >= 4 /\ SubSeq(s, 1, 4) = <<"h", "t", "t", "p">>

\* s.strip()
RECURSIVE lstrip(_)
lstrip(s) == IF s # <<>> /\ Head(s) = " " THEN lstrip(Tail(s)) ELSE s

RECURSIVE rstrip(_)
rstrip(s) == IF s # <<>> /\ s[Len(s)] = " " THEN rstrip(SubSeq(s, 1, Len(s) - 1)) ELSE s

strip(s) == rstrip(lstrip(s))

T_25 == <<"2", "5">>

T_88 == <<"8", "8">>

T_203 == <<"2", "0", "3">>

T_A == <<"A">>

T_Home == <<"H", "o", "m", "e">>

T_album == <<"a", "l", "b", "u", "m">>

T_Yupoo == <<"Y", "u", "p", "o", "o">>

T_search == <<"s", "e", "a", "r", "c", "h">>

T_english == <<"e", "n", "g", "l", "i", "s", "h">>

T_AllCategories == <<"A", "l", "l", " ", "c", "a", "t", "e", "g", "o", "r", "i", "e", "s">>

T_QRcode == <<"Q", "R", " ", "c", "o", "d", "e">>

\* the two-character literals of the site's own language, one token per character
T_login == <<"deng", "lu">>

T_register == <<"zhu", "ce">>

T_chinese == <<"jian", "ti", "zhong", "wen">>

T_httpx == <<"h", "t", "t", "p", ":", "x">>

(***************************************************************************)
(* extract_products_from_page                                              *)
(*                                                                         *)
(* An album link of the page:                                              *)
(*   kind   "product"   survives the href checks                           *)
(*          "nav"       no product parameters and inside nav/header/footer *)
(*          "no_id"     /albums/ not followed by digits                    *)
(*          "bad_href"  neither site-relative nor absolute                 *)
(*   album  the number after /albums/                                      *)
(*   q      the rest of the href (the same album can be linked with        *)
(*          different query strings)                                       *)
(*   parts  the text segments of the enclosing container (empty when the   *)
(*          link has no container)                                         *)
(*   headings, link_text  the h2-h4 texts of the container, the link text  *)
(***************************************************************************)
\* full_url: urljoin(base_url, href) or href itself
full_url(link) == [album |-> link.album, q |-> link.q]

\* invalid_names of the reverse line scan, line 296
invalid_lines ==
    {T_login, T_register, T_Home, T_album, T_AllCategories, T_Yupoo, T_search, T_QRcode}

\* the literals of the heading scan, line 312
invalid_headings == {T_login, T_register, T_Home, T_album}

\* `invalid` of the final filter, line 326
invalid_final ==
    {T_login, T_register, T_Home, T_album, T_AllCategories, T_Yupoo, T_search, T_QRcode,
     T_chinese, T_english}

\* lines 282-288: second segment, or the only one unless it is a 1-2 digit number
name_from_parts(parts) ==
    IF Len(parts) >= 2 THEN parts[2]
    ELSE IF Len(parts) = 1 /\ ~is_small_number(parts[1]) THEN parts[1]
    ELSE <<>>

\* lines 291-302: the last line that is no UI literal, no URL, no small number
RECURSIVE name_from_lines(_, _)
name_from_lines(lines, i) ==
    IF i = 0 THEN <<>>
    ELSE IF /\ lines[i] # <<>>
            /\ lines[i] \notin invalid_lines
            /\ ~startswith_http(lines[i])
            /\ ~is_small_number(lines[i])
         THEN lines[i]
         ELSE name_from_lines(lines, i - 1)

\* lines 305-314: the first heading that differs from the link text
RECURSIVE name_from_headings(_, _, _)
name_from_headings(headings, link_text, i) ==
    IF i > Len(headings) THEN <<>>
    ELSE IF /\ headings[i] # <<>>
            /\ headings[i] # link_text
            /\ headings[i] \notin invalid_headings
            /\ ~is_small_number(headings[i])
         THEN headings[i]
         ELSE name_from_headings(headings, link_text, i + 1)

\* lines 317-321: the link text unless it is a small number
name_from_link_text(link_text) ==
    IF link_text # <<>> /\ ~is_small_number(link_text) THEN link_text ELSE <<>>

\* lines 270-321; <<>> stands for None / the empty string
resolve_name(link) ==
    LET n1 == IF link.parts # <<>> THEN name_from_parts(link.parts) ELSE <<>>
        n2 == IF link.parts # <<>> /\ n1 = <<>>
              THEN name_from_lines(link.parts, Len(link.parts)) ELSE n1
        n3 == IF link.parts # <<>> /\ n2 = <<>>
              THEN name_from_headings(link.headings, link.link_text, 1) ELSE n2
    IN  IF n3 = <<>> THEN name_from_link_text(link.link_text) ELSE n3

\* lines 324-330
name_accepted(product_name) ==
    /\ product_name # <<>>
    /\ Len(product_name) >= 1
    /\ product_name \notin invalid_final
    /\ ~startswith_http(product_name)
    /\ Len(strip(product_name)) >= 1

\* lines 234-336: the first loop, from link i on
RECURSIVE collect_products(_, _, _, _, _)
collect_products(links, i, seen_album_ids, seen_urls, prods) ==
    IF i > Len(links) THEN prods
    ELSE LET link == links[i]
             skip == collect_products(links, i + 1, seen_album_ids, seen_urls, prods)
         IN  IF link.kind # "product" THEN skip
             ELSE IF link.album \in seen_album_ids THEN skip
             ELSE IF full_url(link) \in seen_urls THEN skip
             ELSE IF ~name_accepted(resolve_name(link)) THEN skip
             ELSE collect_products(links, i + 1,
                      seen_album_ids \cup {link.album},
                      seen_urls \cup {full_url(link)},
                      Append(prods, [url |-> full_url(link),
                                        name |-> strip(resolve_name(link))]))

\* a record that names the product kept last
first_url_latest(unique_products, name) == unique_products[Len(unique_products)].url

\* seen_names[product_name]['url']: the URL of the first product with that name
first_url(unique_products, name) ==
    LET i == CHOOSE i \in 1..Len(unique_products) : unique_products[i].name = name
    IN  unique_products[i].url

\* lines 338-354: the second loop, from product i on
RECURSIVE dedup_by_name(_, _, _, _)
dedup_by_name(prods, i, unique_products, duplicates_info) ==
    IF i > Len(prods)
    THEN [products |-> unique_products, duplicate_count |-> Len(duplicates_info),
          duplicates_info |-> duplicates_info]
    ELSE LET product == prods[i]
         IN  IF \A j \in 1..Len(unique_products) : unique_products[j].name # product.name
             THEN dedup_by_name(prods, i + 1, Append(unique_products, product),
                                duplicates_info)
             ELSE dedup_by_name(prods, i + 1, unique_products,
                      Append(duplicates_info,
                             [name |-> product.name, url |-> product.url,
                              first_url |-> first_url(unique_products, product.name)]))

\* an extractor without the second loop
extract_products_without_name_dedup(links) ==
    [products |-> collect_products(links, 1, {}, {}, <<>>),
     duplicate_count |-> 0, duplicates_info |-> <<>>]

\* lines 226-356: both loops
extract_products_from_page(links) ==
    dedup_by_name(collect_products(links, 1, {}, {}, <<>>), 1, <<>>, <<>>)

(***************************************************************************)
(* Specification of extract_products_from_page on its own                  *)
(***************************************************************************)
AlbumIds == {100, 101, 102}

\* container text, headings and link text of the links tried
NameSources ==
    { [parts |-> <<T_25, T_203>>, headings |-> <<>>, link_text |-> T_25],
      [parts |-> <<T_25, T_88>>, headings |-> <<>>, link_text |-> T_25],
      [parts |-> <<T_203>>, headings |-> <<T_203>>, link_text |-> T_203],
      [parts |-> <<T_25>>, headings |-> <<>>, link_text |-> T_25],
      [parts |-> <<T_25, T_Home>>, headings |-> <<T_Home>>, link_text |-> T_25],
      [parts |-> <<>>, headings |-> <<>>, link_text |-> T_A],
      [parts |-> <<T_25, T_httpx>>, headings |-> <<>>, link_text |-> T_25] }

NoSource == [parts |-> <<>>, headings |-> <<>>, link_text |-> <<>>]

Links ==
    { [kind |-> "product", album |-> a, q |-> q, parts |-> n.parts,
       headings |-> n.headings, link_text |-> n.link_text] :
         a \in AlbumIds, q \in {1, 2}, n \in NameSources }
    \cup
    { [kind |-> k, album |-> 100, q |-> 1, parts |-> <<T_25, T_203>>,
       headings |-> <<>>, link_text |-> T_25] : k \in {"nav", "no_id", "bad_href"} }

LinkSeqs == UNION { [1..n -> Links] : n \in 0..MaxLinks }

ExIdleOut == [returned |-> FALSE, products |-> <<>>, duplicate_count |-> 0,
              duplicates_info |-> <<>>]

(***************************************************************************)
(* sanitize_filename                                                       *)
(***************************************************************************)
\* filename.replace('/', '-').replace('\\', '-')
replace_separators(s) ==
    [i \in 1..Len(s) |-> IF s[i] \in {"/", "\\"} THEN "-" ELSE s[i]]

\* filename.replace('\0', ''); the NUL character is written "NUL"
RECURSIVE remove_nul(_)
remove_nul(s) ==
    IF s = <<>> THEN <<>>
    ELSE IF Head(s) = "NUL" THEN remove_nul(Tail(s))
    ELSE <<Head(s)>> \o remove_nul(Tail(s))

\* if len(filename) > 250: filename = filename[:250]
MaxNameLen == 250

truncate(s) == IF Len(s) > MaxNameLen THEN SubSeq(s, 1, MaxNameLen) ELSE s

sanitize_filename(filename) == strip(truncate(remove_nul(replace_separators(filename))))

(***************************************************************************)
(* Image URLs and file names                                               *)
(*                                                                         *)
(* An image URL https://photo.yupoo.com/<user>/<id>/<name>.<suffix> is the *)
(* record [id, suffix]; suffix <<>> is a last path segment without a dot.  *)
(***************************************************************************)
LowerChar(c) ==
    CASE c = "J" -> "j" [] c = "P" -> "p" [] c = "G" -> "g" [] c = "E" -> "e"
      [] c = "N" -> "n" [] OTHER -> c

\* ext.lower()
lower(s) == [i \in 1..Len(s) |-> LowerChar(s[i])]

EXT_JPG == <<".", "j", "p", "g">>

EXT_JPEG == <<".", "j", "p", "e", "g">>

\* image_id = url_parts[-2]
image_id_of(img_url) == img_url.id

\* lines 558-561: '.' + original_filename.split('.')[-1], or '.jpg'
ext_of(img_url) == IF img_url.suffix # <<>> THEN <<".">> \o img_url.suffix ELSE EXT_JPG

\* a file of a product directory: <<page, directory name, stem, extension>>
path_in(dir, stem, ext) == <<dir[1], dir[2], stem, ext>>

\* image_path = product_dir / (image_id + ext)
image_path_of(dir, img_url) == path_in(dir, image_id_of(img_url), ext_of(img_url))

\* a pre-check without the sibling extension
has_alt_path_never(img_url) == FALSE

\* lines 582-587 and 790-795: the sibling extension, or none
has_alt_path(img_url) == lower(ext_of(img_url)) \in {EXT_JPEG, EXT_JPG}

alt_path_of(dir, img_url) ==
    IF lower(ext_of(img_url)) = EXT_JPEG
    THEN path_in(dir, image_id_of(img_url), EXT_JPG)
    ELSE path_in(dir, image_id_of(img_url), EXT_JPEG)

\* a pre-check that never finds the file
already_present_never(fs, dir, img_url) == FALSE

\* lines 577 and 589 (786 and 797): the image counts as already there
already_present(fs, dir, img_url) ==
    \/ image_path_of(dir, img_url) \in DOMAIN fs
    \/ /\ has_alt_path(img_url)
       /\ alt_path_of(dir, img_url) \in DOMAIN fs

(***************************************************************************)
(* Finite maps                                                             *)
(***************************************************************************)
EmptyMap == <<>>

MapPut(f, k, v) == [x \in DOMAIN f \cup {k} |-> IF x = k THEN v ELSE f[x]]

MapDel(f, k) == [x \in DOMAIN f \ {k} |-> f[x]]

\* the file system after writing `file` (of download_image) at path p
write_result(fs, p, file) == IF file.exists THEN MapPut(fs, p, file.size) ELSE MapDel(fs, p)

\* the file at path p as download_image sees it
file_at(fs, p) == IF p \in DOMAIN fs THEN FileOf(fs[p]) ELSE NoFile

\* the paths of the files lying in directory dir
files_in(fs, dir) == {p \in DOMAIN fs : p[1] = dir[1] /\ p[2] = dir[2]}

\* prev_dir.exists() and any(prev_dir.iterdir())
dir_has_entries(ds, fs, dir) == dir \in ds /\ files_in(fs, dir) # {}

(***************************************************************************)
(* The site as the worker sees it                                          *)
(***************************************************************************)
START_PAGE == 1

END_PAGE == 2

Pages == START_PAGE..END_PAGE

\* most products on a listing page, most images of a product
MaxProducts == 1

MaxImages == 2

\* most failures (failed fetch, failed download, lock shown in mid-run,
\* failed authentication, killed worker) in one behaviour
MaxFaults == 1

\* most runs of the worker over the same directory tree
MaxRuns == 2

T_AsB == <<"A", "/", "B">>

ProductNames == {T_88, T_AsB}

PageNameSeqs == UNION { [1..n -> ProductNames] : n \in 0..MaxProducts }

SUFFIX_JPG == <<"j", "p", "g">>

SUFFIX_JPEG == <<"j", "p", "e", "g">>

SUFFIX_PNG == <<"p", "n", "g">>

ImageUrls ==
    { [id |-> "a", suffix |-> SUFFIX_JPG], [id |-> "a", suffix |-> SUFFIX_JPEG],
      [id |-> "a", suffix |-> SUFFIX_PNG], [id |-> "b", suffix |-> SUFFIX_JPG] }

ImageUrlSeqs ==
    { s \in UNION { [1..n -> ImageUrls] : n \in 0..MaxImages } :
        \A i, j \in 1..Len(s) : i # j => s[i] # s[j] }

\* the album links of listing page p whose products are named names[1], names[2], ...
\* (container text "<photo count>|<name>")
album_of(p, i) == p * 10 + i

page_links(p, names) ==
    [i \in 1..Len(names) |->
        [kind |-> "product", album |-> album_of(p, i), q |-> 1,
         parts |-> <<T_25, names[i]>>, headings |-> <<>>, link_text |-> T_25]]

\* chunks of the body of every image of the site
ImageChunks == 2

\* what the attempts of a download meet in a crawl
CrawlOutcomes ==
    { [kind |-> "http_error", chunks |-> 0], [kind |-> "stream_conn_error", chunks |-> 1],
      [kind |-> "complete", chunks |-> 0], [kind |-> "complete", chunks |-> ImageChunks] }

NoAuthFailure == [probe |-> "unlocked", reply |-> "json_valid", reprobe |-> "unlocked"]

\* the in-memory state of a worker process that has just been started
WorkerStart ==
    /\ auth_failure = NoAuthFailure
    /\ processed_products = EmptyMap
    /\ page = start_page
    /\ products = <<>>
    /\ idx = 1
    /\ cur_dir = <<0, <<>>>>
    /\ image_urls = <<>>
    /\ img_i = 1
    /\ count = 0
    /\ cons_before = {}
    /\ img_event = "none"
    /\ fetch = "none"
    /\ total_products = 0
    /\ total_images = 0
    /\ failed_products = 0
    /\ total_duplicates = 0
    /\ cross_page_duplicates = <<>>
    /\ fetched = <<>>
    /\ summaries = 0

\* no pure function is being checked on its own
FnIdle ==
    /\ fn_in = <<>>
    /\ fn_out = <<>>

\* no orchestrator
OrchIdle ==
    /\ COLLECTIONS = <<>>
    /\ orch_pc = "off"
    /\ orch_idx = 1
    /\ category_names = <<>>
    /\ resolved = <<>>
    /\ log_handles = <<>>
    /\ workers = <<>>
    /\ processes = <<>>
    /\ scan = <<>>
    /\ interrupted = FALSE
    /\ reports = <<>>

\* no worker: the state of the crawl while a pure function is checked on its own
MainIdle ==
    /\ run = 0
    /\ pc = "off"
    /\ password = FALSE
    /\ start_page = START_PAGE
    /\ end_page = END_PAGE
    /\ listing = EmptyMap
    /\ detail = EmptyMap
    /\ base_dir = FALSE
    /\ dirs = {}
    /\ files = EmptyMap
    /\ faults = 0
    /\ WorkerStart

(***************************************************************************)
(* Specification of download_image on its own                              *)
(***************************************************************************)
DLIdleIn == [retries |-> 0, file |-> NoFile, outs |-> <<>>]

DLIdleOut == [returned |-> FALSE, ret |-> FALSE, file |-> NoFile, attempts |-> 0, slept |-> 0]

Init_DL ==
    /\ MainIdle
    /\ OrchIdle
    /\ FnIdle
    /\ ex_in = <<>>
    /\ ex_out = ExIdleOut
    /\ auth_in = AuthIdleIn
    /\ auth_out = AuthIdleOut
    /\ \E r \in 1..MaxRetriesArg :
       \E f \in {NoFile, FileOf(0), FileOf(MaxChunks)} :
       \E outs \in [1..r -> Outcomes] :
          dl_in = [retries |-> r, file |-> f, outs |-> outs]
    /\ dl_out = DLIdleOut

DL_Call ==
    /\ ~dl_out.returned
    /\ LET r == download_image(dl_in.file, dl_in.outs, dl_in.retries)
       IN  dl_out' = [returned |-> TRUE, ret |-> r.ret, file |-> r.file,
                      attempts |-> r.attempts, slept |-> r.slept]
    /\ UNCHANGED <<dl_in, authVars, exVars, mainVars, orchVars, fnVars>>

Next_DL == DL_Call

Spec_DL == Init_DL /\ [][Next_DL]_vars

BackoffUnit == 2

\* attempt i (1-based) of the call did not produce a non-empty file
AttemptFailed(i) ==
    ~(dl_in.outs[i].kind = "complete" /\ dl_in.outs[i].chunks > 0)

\* attempt i failed with a connection or timeout error
ConnectionFailure(i) == dl_in.outs[i].kind \in {"request_error", "stream_conn_error"}

\* the seconds waited after the failed attempts 1..n
RECURSIVE ExpectedSleep(_)
ExpectedSleep(n) ==
    IF n = 0 THEN 0
    ELSE ExpectedSleep(n - 1) + (IF ConnectionFailure(n) THEN n * BackoffUnit ELSE 1)

\* C20: download_image ends after at most `retries` attempts; every failed
\* attempt is followed by another one while fewer than `retries` were made;
\* it returns False once `retries` attempts have all failed; a connection or
\* timeout failure waits attempt index x 2 seconds before the next attempt.
C20_BoundedRetries ==
    dl_out.returned =>
        /\ dl_out.attempts \in 1..dl_in.retries
        /\ \A i \in 1..(dl_out.attempts - 1) : AttemptFailed(i)
        /\ dl_out.ret => ~AttemptFailed(dl_out.attempts)
        /\ ~dl_out.ret => (dl_out.attempts = dl_in.retries /\ AttemptFailed(dl_in.retries))
        /\ dl_out.slept = ExpectedSleep(dl_out.attempts - 1)

\* three attempts: a timeout, an HTTP error status, an empty body; False, 2 + 1 s slept
C20_Witness ==
    /\ dl_out.returned
    /\ dl_in.retries = 3
    /\ dl_in.outs = << [kind |-> "request_error", chunks |-> 0],
                       [kind |-> "http_error", chunks |-> 0],
                       [kind |-> "complete", chunks |-> 0] >>
    /\ ~dl_out.ret
    /\ dl_out.attempts = 3
    /\ dl_out.slept = 3

Init_Auth ==
    /\ MainIdle
    /\ OrchIdle
    /\ FnIdle
    /\ ex_in = <<>>
    /\ ex_out = ExIdleOut
    /\ dl_in = DLIdleIn
    /\ dl_out = DLIdleOut
    /\ \E p \in BOOLEAN : \E net \in AuthNets : auth_in = [password |-> p, net |-> net]
    /\ auth_out = AuthIdleOut

Auth_Call ==
    /\ ~auth_out.returned
    /\ LET r == authenticate_if_needed(auth_in.password, auth_in.net)
       IN  auth_out' = [returned |-> TRUE, ret |-> r.ret, raised |-> r.raised,
                        cookie |-> r.cookie, requests |-> r.requests]
    /\ UNCHANGED <<auth_in, dlVars, exVars, mainVars, orchVars, fnVars>>

Next_Auth == Auth_Call

Spec_Auth == Init_Auth /\ [][Next_Auth]_vars

\* a request of the call met a network exception
AuthNetException ==
    \/ auth_in.net.probe \in {"exception", "http_error"}
    \/ /\ Len(auth_out.requests) >= 2
       /\ auth_in.net.reply \in {"exception", "http_error"}
    \/ /\ Len(auth_out.requests) >= 3
       /\ auth_in.net.reprobe = "exception"

\* C10: with a password configured and a locked page-1 probe, the call returns
\* True only if a re-probe made after setting the cookie shows no lock; the
\* cookie is set only after a JSON reply with the flag true or after a non-JSON
\* reply; a JSON reply with the flag false returns False without setting the
\* cookie; an exception of a network step yields False and does not propagate.
C10_AuthLocked ==
    (auth_out.returned /\ auth_in.password) =>
        /\ ~auth_out.raised
        /\ AuthNetException => ~auth_out.ret
        /\ auth_in.net.probe = "locked" =>
              /\ auth_out.ret =>
                    /\ auth_out.cookie
                    /\ auth_out.requests = <<"probe", "auth", "reprobe">>
                    /\ ~is_password_protected(auth_in.net.reprobe)
                    /\ auth_in.net.reprobe # "exception"
              /\ auth_out.cookie => auth_in.net.reply \in {"json_valid", "not_json"}
              /\ auth_in.net.reply = "json_invalid" => (~auth_out.ret /\ ~auth_out.cookie)

\* the speculative path: non-JSON reply, cookie set, re-probe still locked
C10_Witness ==
    /\ auth_out.returned
    /\ auth_in.password
    /\ auth_in.net.probe = "locked"
    /\ auth_in.net.reply = "not_json"
    /\ auth_in.net.reprobe = "locked"
    /\ auth_out.cookie
    /\ ~auth_out.ret

Init_Extract ==
    /\ MainIdle
    /\ OrchIdle
    /\ FnIdle
    /\ dl_in = DLIdleIn
    /\ dl_out = DLIdleOut
    /\ auth_in = AuthIdleIn
    /\ auth_out = AuthIdleOut
    /\ ex_in \in LinkSeqs
    /\ ex_out = ExIdleOut

Extract_Call ==
    /\ ~ex_out.returned
    /\ LET r == extract_products_from_page(ex_in)
       IN  ex_out' = [returned |-> TRUE, products |-> r.products,
                      duplicate_count |-> r.duplicate_count,
                      duplicates_info |-> r.duplicates_info]
    /\ UNCHANGED <<ex_in, dlVars, authVars, mainVars, orchVars, fnVars>>

Next_Extract == Extract_Call

Spec_Extract == Init_Extract /\ [][Next_Extract]_vars

\* C4: the returned product list has no two entries that come from the same
\* album id and no two entries with the same resolved name.
C4_UniqueAlbumAndName ==
    ex_out.returned =>
        \A i, j \in 1..Len(ex_out.products) :
            i # j => /\ ex_out.products[i].url.album # ex_out.products[j].url.album
                     /\ ex_out.products[i].name # ex_out.products[j].name

\* a page with the same album linked twice and two albums of the same name,
\* reduced to one product
C4_Witness ==
    /\ ex_out.returned
    /\ Len(ex_in) = 3
    /\ \A i \in 1..3 : ex_in[i].kind = "product" /\ resolve_name(ex_in[i]) = T_203
    /\ ex_in[1].album = ex_in[2].album
    /\ ex_in[3].album # ex_in[1].album
    /\ Len(ex_out.products) = 1
    /\ ex_out.duplicate_count = 1

\* the candidates the first loop accepted, in document order
Accepted == collect_products(ex_in, 1, {}, {}, <<>>)

\* the accepted candidates that are the first of their name, and the others
KeptIdx ==
    {i \in 1..Len(Accepted) : \A j \in 1..(i - 1) : Accepted[j].name # Accepted[i].name}

LaterIdx == (1..Len(Accepted)) \ KeptIdx

\* the k-th smallest element of a set of indices
Nth(S, k) == CHOOSE i \in S : Cardinality({j \in S : j <= i}) = k

\* the first accepted candidate that carries the name of candidate i
FirstOfName(i) ==
    CHOOSE j \in KeptIdx : Accepted[j].name = Accepted[i].name

\* C21: in the name-dedup pass the first accepted candidate of each name, in
\* document order, is kept; every later accepted candidate of the same name
\* yields exactly one duplicate record with that name, its own URL and the
\* URL of the kept candidate; duplicate_count is the number of records; the
\* returned products plus duplicate_count are the accepted candidates.
C21_NameDedup ==
    ex_out.returned =>
        /\ Len(ex_out.products) = Cardinality(KeptIdx)
        /\ \A k \in 1..Len(ex_out.products) : ex_out.products[k] = Accepted[Nth(KeptIdx, k)]
        /\ Len(ex_out.duplicates_info) = Cardinality(LaterIdx)
        /\ \A k \in 1..Len(ex_out.duplicates_info) :
              LET i == Nth(LaterIdx, k)
              IN  ex_out.duplicates_info[k] =
                     [name |-> Accepted[i].name, url |-> Accepted[i].url,
                      first_url |-> Accepted[FirstOfName(i)].url]
        /\ ex_out.duplicate_count = Len(ex_out.duplicates_info)
        /\ Len(ex_out.products) + ex_out.duplicate_count = Len(Accepted)

\* three albums, the third repeats the name of the first: two products kept,
\* one record that points at the first album
C21_Witness ==
    /\ ex_out.returned
    /\ Len(Accepted) = 3
    /\ Accepted[1].name = T_203
    /\ Accepted[2].name = T_88
    /\ Accepted[3].name = T_203
    /\ Len(ex_out.products) = 2
    /\ ex_out.duplicate_count = 1
    /\ ex_out.duplicates_info[1].first_url = Accepted[1].url

\* the first link of the page that reaches the album-id test with this id
FirstLinkOf(album) ==
    CHOOSE i \in 1..Len(ex_in) :
        /\ ex_in[i].kind = "product"
        /\ ex_in[i].album = album
        /\ \A j \in 1..(i - 1) : ~(ex_in[j].kind = "product" /\ ex_in[j].album = album)

\* C31: once a link with an album id has been seen on the page, every later
\* link with that id contributes no product, whether the first link with the
\* id was accepted or rejected by the name filters: every accepted candidate
\* is the first link of its album id.
C31_LaterLinksOfSeenIdDropped ==
    ex_out.returned =>
        \A k \in 1..Len(Accepted) :
            LET first == ex_in[FirstLinkOf(Accepted[k].url.album)]
            IN  /\ Accepted[k].url = full_url(first)
                /\ Accepted[k].name = strip(resolve_name(first))

(***************************************************************************)
(* The category worker: main, process_product, cross-page consolidation    *)
(***************************************************************************)
PureIdle ==
    /\ dl_in = DLIdleIn
    /\ dl_out = DLIdleOut
    /\ auth_in = AuthIdleIn
    /\ auth_out = AuthIdleOut
    /\ ex_in = <<>>
    /\ ex_out = ExIdleOut

\* the first run starts on an empty output tree
Init ==
    /\ PureIdle
    /\ OrchIdle
    /\ FnIdle
    /\ run = 1
    /\ pc = "start"
    /\ password \in BOOLEAN
    /\ start_page \in Pages
    /\ end_page \in Pages
    /\ start_page <= end_page
    /\ listing = EmptyMap
    /\ detail = EmptyMap
    /\ base_dir = FALSE
    /\ dirs = {}
    /\ files = EmptyMap
    /\ faults = 0
    /\ WorkerStart

\* line 635: no password configured, authenticate_if_needed is not called
Auth_NotNeeded ==
    /\ ~password
    /\ pc' = "setup"
    /\ UNCHANGED <<run, password, start_page, end_page, auth_failure, siteVars, fsVars, processed_products,
                   pageVars, imageVars, statVars, fetched, summaries, faults>>

\* lines 637, 640: authenticate_if_needed returned True
Auth_Succeeded ==
    /\ password
    /\ \E net \in AuthNets : authenticate_if_needed(password, net).ret
    /\ pc' = "setup"
    /\ UNCHANGED <<run, password, start_page, end_page, auth_failure, siteVars, fsVars, processed_products,
                   pageVars, imageVars, statVars, fetched, summaries, faults>>

\* a failed authentication that falls through to the summary
Auth_Failed_with_summary ==
    /\ password
    /\ faults < MaxFaults
    /\ \E net \in AuthNets :
          /\ ~authenticate_if_needed(password, net).ret
          /\ auth_failure' = net
    /\ pc' = "failed"
    /\ faults' = faults + 1
    /\ summaries' = summaries + 1
    /\ UNCHANGED <<run, password, start_page, end_page, siteVars, fsVars, processed_products, pageVars,
                   imageVars, statVars, fetched>>

\* lines 637-639: authenticate_if_needed returned False; main returns
Auth_Failed ==
    /\ password
    /\ faults < MaxFaults
    /\ \E net \in AuthNets :
          /\ ~authenticate_if_needed(password, net).ret
          /\ auth_failure' = net
    /\ pc' = "failed"
    /\ faults' = faults + 1
    /\ UNCHANGED <<run, password, start_page, end_page, siteVars, fsVars, processed_products, pageVars,
                   imageVars, statVars, fetched, summaries>>

\* lines 634-641
Main_Authenticate ==
    /\ pc = "start"
    /\ \/ Auth_NotNeeded
       \/ Auth_Succeeded
       \/ Auth_Failed

\* lines 643-689: category name, base_dir.mkdir, the statistics
Main_Setup ==
    /\ pc = "setup"
    /\ base_dir' = TRUE
    /\ page' = start_page
    /\ pc' = "page"
    /\ UNCHANGED <<run, password, start_page, end_page, auth_failure, siteVars, dirs, files,
                   processed_products, products, idx, imageVars, statVars, fetched,
                   summaries, faults>>

\* a loop that stays on the page it is on
next_page_same(p) == p

\* the page after p in range(start_page, end_page + 1), line 692
next_page(p) == p + 1

\* the loop `for page in range(start_page, end_page + 1)` moves on
SkipPage ==
    /\ page' = next_page(page)
    /\ pc' = IF next_page(page) > end_page THEN "summary" ELSE "page"
    /\ UNCHANGED <<products, idx, total_duplicates>>

\* lines 717-725: the products of the page, then the product loop
StartProducts(links) ==
    LET r == extract_products_from_page(links)
    IN  /\ products' = r.products
        /\ total_duplicates' = total_duplicates + r.duplicate_count
        /\ idx' = 1
        /\ pc' = "product"
        /\ page' = page

\* the site serves listing page p: the same content every time it is served
ServeListing(p, names) ==
    /\ p \in DOMAIN listing => names = listing[p]
    /\ listing' = MapPut(listing, p, names)

\* what the site can list on page p
ListingChoices(p) == IF p \in DOMAIN listing THEN {listing[p]} ELSE PageNameSeqs

\* One request for a listing page in the page loop (lines 701 and 713):
\*   shown    "listing", "lock" (the page shows a lock marker) or "error"
\*            (the request raised)
\*   checked  is_password_protected was applied to the page (line 707)
\*   reauth   the re-authentication the page triggered (line 709): "none",
\*            "ok" or "failed"
\*   retry    the request is the one of line 713
Fetch(p, shown, checked, reauth, retry) ==
    [page |-> p, shown |-> shown, checked |-> checked, reauth |-> reauth, retry |-> retry]

\* line 707: `password and is_password_protected(soup)` looks at the page
\* only when a password is configured
lock_checked(pw) == pw

\* a loop that fetches the page again whatever the re-authentication returned
after_reauth_refetch(ok) == "refetch"

\* lines 709-713: a failed re-authentication skips the page
after_reauth(ok) == IF ok THEN "refetch" ELSE "continue"

\* lines 698-725, the page is fetched and shows no lock
Main_Page_Ok ==
    /\ pc = "page"
    /\ fetched' = Append(fetched, Fetch(page, "listing", lock_checked(password), "none", FALSE))
    /\ \E names \in ListingChoices(page) :
          /\ ServeListing(page, names)
          /\ StartProducts(page_links(page, names))
    /\ UNCHANGED <<run, password, start_page, end_page, auth_failure, detail, fsVars,
                   processed_products, imageVars, total_products, total_images,
                   failed_products, cross_page_duplicates, summaries, faults>>

\* lines 701-702 raise; except at 843
Main_Page_Error ==
    /\ pc = "page"
    /\ faults < MaxFaults
    /\ faults' = faults + 1
    /\ fetched' = Append(fetched, Fetch(page, "error", FALSE, "none", FALSE))
    /\ SkipPage
    /\ UNCHANGED <<run, password, start_page, end_page, auth_failure, siteVars, fsVars,
                   processed_products, imageVars, total_products, total_images,
                   failed_products, cross_page_duplicates, summaries>>

\* lines 713-718 after a re-authentication that returned True: the page is
\* requested again and parsed without a second look at the lock
Refetch(first) ==
    \/ /\ fetched' = fetched \o <<first, Fetch(page, "listing", FALSE, "none", TRUE)>>
       /\ \E names \in ListingChoices(page) :
             /\ ServeListing(page, names)
             /\ StartProducts(page_links(page, names))
    \/ /\ fetched' = fetched \o <<first, Fetch(page, "lock", FALSE, "none", TRUE)>>
       /\ StartProducts(<<>>)                       \* still the lock page
       /\ UNCHANGED listing
    \/ /\ fetched' = fetched \o <<first, Fetch(page, "error", FALSE, "none", TRUE)>>
       /\ SkipPage                                  \* lines 713-714 raise
       /\ UNCHANGED listing

\* lines 706-718, the page shows the lock.  Without a password the lock page
\* is parsed as it is (it has no album links).  With one, one
\* re-authentication; when it succeeds the page is fetched again.
Main_Page_Locked ==
    /\ pc = "page"
    /\ faults < MaxFaults
    /\ faults' = faults + 1
    /\ \/ /\ ~password
          /\ fetched' = Append(fetched, Fetch(page, "lock", lock_checked(password), "none", FALSE))
          /\ StartProducts(<<>>)
          /\ UNCHANGED listing
       \/ /\ password
          /\ \E net \in AuthNets :
                LET ok == authenticate_if_needed(password, net).ret
                    first == Fetch(page, "lock", lock_checked(password),
                                   IF ok THEN "ok" ELSE "failed", FALSE)
                IN  IF after_reauth(ok) = "continue"
                    THEN /\ fetched' = Append(fetched, first)
                         /\ SkipPage                \* continue, line 711
                         /\ UNCHANGED listing
                    ELSE Refetch(first)
    /\ UNCHANGED <<run, password, start_page, end_page, auth_failure, detail, fsVars, processed_products,
                   imageVars, total_products, total_images, failed_products,
                   cross_page_duplicates, summaries>>

\* what the request for a product's detail page meets: an exception of the
\* fetch or the parse, or a page with image URLs (none for an empty album)
FetchRaised == [kind |-> "raised", urls |-> <<>>]

DetailPage(urls) == [kind |-> "page", urls |-> urls]

\* get_image_urls_from_product, lines 364-436: (image_urls, success)
get_image_urls_from_product(reply) ==
    IF reply.kind = "raised"
    THEN [image_urls |-> <<>>, success |-> FALSE]          \* line 436
    ELSE [image_urls |-> reply.urls, success |-> TRUE]     \* line 432

\* what the call gave, as the worker's branches tell it apart
fetch_result(r) ==
    IF ~r.success THEN "raised" ELSE IF r.image_urls = <<>> THEN "empty" ELSE "urls"

\* a worker that counts every product without images as failed
failed_after_any(failed, success) == failed + 1

\* lines 833-835: if not success: failed_products += 1
failed_after(failed, success) == IF ~success THEN failed + 1 ELSE failed

\* a worker that registers every product it processed
should_register_always(success, images) == TRUE

\* line 826: if success and images > 0
should_register(success, images) == success /\ images > 0

\* the site serves the detail page of an album: the same images every time
ServeDetail(album, urls) ==
    /\ urls \in ImageUrlSeqs
    /\ album \in DOMAIN detail => urls = detail[album]
    /\ detail' = MapPut(detail, album, urls)

\* a loop that may leave the page before its last product
products_done_early(i, prods) == TRUE

\* `for idx, product in enumerate(products, 1)` (line 728) is exhausted
products_done(i, prods) == i > Len(prods)

\* the product loop of a page has ended
Product_PageDone ==
    /\ pc = "product"
    /\ products_done(idx, products)
    /\ page' = next_page(page)
    /\ pc' = IF next_page(page) > end_page THEN "summary" ELSE "page"
    /\ UNCHANGED <<run, password, start_page, end_page, auth_failure, siteVars, fsVars,
                   processed_products, products, idx, imageVars, statVars, fetched,
                   summaries, faults>>

\* a loop that does not count the product it takes up
attempted_after_uncounted(total) == total

\* line 729: total_products += 1, first statement of the product loop
attempted_after(total) == total + 1

\* a worker that never consults processed_products
IsCrossPageDuplicate_never(product) == FALSE

\* line 735 and 741: the product is in processed_products and its directory has entries
IsCrossPageDuplicate(product) ==
    LET product_name == sanitize_filename(product.name)
    IN  /\ product_name \in DOMAIN processed_products
        /\ dir_has_entries(dirs, files,
                           <<processed_products[product_name], product_name>>)

CrossPageRecord(product, prev_page, n) ==
    [name |-> product.name, current_page |-> page, previous_page |-> prev_page,
     images_added |-> n]

\* lines 728-758: a cross-page duplicate whose image URLs cannot be had
Consolidate_NoImages ==
    /\ pc = "product"
    /\ idx <= Len(products)
    /\ IsCrossPageDuplicate(products[idx])
    /\ LET product == products[idx]
           prev_page == processed_products[sanitize_filename(product.name)]
       IN  /\ \/ /\ faults < MaxFaults             \* the fetch raised
                 /\ faults' = faults + 1
                 /\ fetch' = fetch_result(get_image_urls_from_product(FetchRaised))
                 /\ UNCHANGED detail
              \/ /\ ServeDetail(product.url.album, <<>>)
                 /\ fetch' = fetch_result(get_image_urls_from_product(DetailPage(<<>>)))
                 /\ UNCHANGED faults
           /\ cross_page_duplicates' =
                 Append(cross_page_duplicates, CrossPageRecord(product, prev_page, 0))
    /\ total_products' = attempted_after(total_products)
    /\ idx' = idx + 1                               \* continue, line 758
    /\ UNCHANGED <<run, password, start_page, end_page, auth_failure, listing, fsVars,
                   processed_products, page, products, pc, cur_dir, image_urls, img_i,
                   count, cons_before, img_event, total_images, failed_products,
                   total_duplicates, fetched, summaries>>

\* lines 728-766: a cross-page duplicate with image URLs, before the image loop
Consolidate_Start ==
    /\ pc = "product"
    /\ idx <= Len(products)
    /\ IsCrossPageDuplicate(products[idx])
    /\ LET product == products[idx]
           product_name == sanitize_filename(product.name)
       IN  /\ \E urls \in ImageUrlSeqs \ {<<>>} :
                 /\ ServeDetail(product.url.album, urls)
                 /\ image_urls' = get_image_urls_from_product(DetailPage(urls)).image_urls
                 /\ fetch' = fetch_result(get_image_urls_from_product(DetailPage(urls)))
           /\ cur_dir' = <<processed_products[product_name], product_name>>
           /\ cons_before' = DOMAIN files
    /\ total_products' = attempted_after(total_products)
    /\ img_i' = 1
    /\ count' = 0                                   \* new_images_count
    /\ img_event' = "none"
    /\ pc' = "cons_img"
    /\ UNCHANGED <<run, password, start_page, end_page, auth_failure, listing, fsVars,
                   processed_products, page, products, idx, total_images,
                   failed_products, total_duplicates, cross_page_duplicates, fetched,
                   summaries, faults>>

\* download_image(img_url, image_path) in a crawl: the file system and the
\* result for some behaviour of the network; a failed download is a failure
Download(p, ok) ==
    \E outs \in [1..MAX_RETRIES -> CrawlOutcomes] :
        LET r == download_image(file_at(files, p), outs, MAX_RETRIES)
        IN  /\ r.ret = ok
            /\ files' = write_result(files, p, r.file)

\* lines 768-804: one image of a cross-page duplicate
Consolidate_Image ==
    /\ pc = "cons_img"
    /\ img_i <= Len(image_urls)
    /\ LET img_url == image_urls[img_i]
       IN  \/ /\ already_present(files, cur_dir, img_url)
              /\ img_event' = "skip"
              /\ UNCHANGED <<files, count, total_images, faults>>
           \/ /\ ~already_present(files, cur_dir, img_url)
              /\ Download(image_path_of(cur_dir, img_url), TRUE)
              /\ img_event' = "download_ok"
              /\ count' = count + 1
              /\ total_images' = total_images + 1
              /\ UNCHANGED faults
           \/ /\ ~already_present(files, cur_dir, img_url)
              /\ faults < MaxFaults
              /\ Download(image_path_of(cur_dir, img_url), FALSE)
              /\ img_event' = "download_failed"
              /\ faults' = faults + 1
              /\ UNCHANGED <<count, total_images>>
    /\ img_i' = img_i + 1
    /\ UNCHANGED <<run, password, start_page, end_page, auth_failure, siteVars, base_dir, dirs,
                   processed_products, pageVars, pc, cur_dir, image_urls, cons_before, fetch,
                   total_products, failed_products, total_duplicates,
                   cross_page_duplicates, fetched, summaries>>

\* lines 806-819: the record of the consolidation
Consolidate_End ==
    /\ pc = "cons_img"
    /\ img_i > Len(image_urls)
    /\ cross_page_duplicates' =
          Append(cross_page_duplicates,
                 CrossPageRecord(products[idx], cur_dir[1], count))
    /\ idx' = idx + 1
    /\ pc' = "product"
    /\ cur_dir' = <<0, <<>>>>
    /\ image_urls' = <<>>
    /\ img_i' = 1
    /\ count' = 0
    /\ cons_before' = {}
    /\ img_event' = "none"
    /\ fetch' = "none"
    /\ UNCHANGED <<run, password, start_page, end_page, auth_failure, siteVars, fsVars,
                   processed_products, page, products, total_products, total_images,
                   failed_products, total_duplicates, fetched, summaries, faults>>

\* lines 821-838 with process_product 526-544: the product is processed and
\* yields no image URL (the detail fetch failed, or the album is empty), or
\* creating the directory raised
Process_NoImages ==
    /\ pc = "product"
    /\ idx <= Len(products)
    /\ ~IsCrossPageDuplicate(products[idx])
    /\ LET product == products[idx]
           product_dir == <<page, sanitize_filename(product.name)>>
       IN  \/ /\ faults < MaxFaults                 \* mkdir raised: except at 836
              /\ faults' = faults + 1
              /\ failed_products' = failed_products + 1           \* line 838
              /\ fetch' = "none"
              /\ UNCHANGED <<dirs, detail>>
           \/ /\ faults < MaxFaults                 \* (0, False), line 540
              /\ faults' = faults + 1
              /\ dirs' = dirs \cup {product_dir}
              /\ LET r == get_image_urls_from_product(FetchRaised)
                 IN  /\ fetch' = fetch_result(r)
                     /\ failed_products' = failed_after(failed_products, r.success)
              /\ UNCHANGED detail
           \/ /\ ServeDetail(product.url.album, <<>>)   \* (0, True), line 544
              /\ dirs' = dirs \cup {product_dir}
              /\ LET r == get_image_urls_from_product(DetailPage(<<>>))
                 IN  /\ fetch' = fetch_result(r)
                     /\ failed_products' = failed_after(failed_products, r.success)
              /\ UNCHANGED faults
    /\ total_products' = attempted_after(total_products)
    /\ idx' = idx + 1
    /\ UNCHANGED <<run, password, start_page, end_page, auth_failure, listing, base_dir, files,
                   processed_products, page, products, pc, cur_dir, image_urls, img_i,
                   count, cons_before, img_event, total_images, total_duplicates,
                   cross_page_duplicates, fetched, summaries>>

\* process_product lines 526-547: the directory is made, the image URLs are there
Process_Start ==
    /\ pc = "product"
    /\ idx <= Len(products)
    /\ ~IsCrossPageDuplicate(products[idx])
    /\ LET product == products[idx]
           product_dir == <<page, sanitize_filename(product.name)>>
       IN  /\ dirs' = dirs \cup {product_dir}
           /\ cur_dir' = product_dir
           /\ \E urls \in ImageUrlSeqs \ {<<>>} :
                 /\ ServeDetail(product.url.album, urls)
                 /\ image_urls' = get_image_urls_from_product(DetailPage(urls)).image_urls
                 /\ fetch' = fetch_result(get_image_urls_from_product(DetailPage(urls)))
    /\ total_products' = attempted_after(total_products)
    /\ img_i' = 1
    /\ count' = 0                                   \* downloaded
    /\ img_event' = "none"
    /\ pc' = "proc_img"
    /\ UNCHANGED <<run, password, start_page, end_page, auth_failure, listing, base_dir, files,
                   processed_products, page, products, idx, cons_before, total_images,
                   failed_products, total_duplicates, cross_page_duplicates, fetched,
                   summaries, faults>>

\* a skip that is not counted
count_after_skip_uncounted(downloaded) == downloaded

\* lines 577-579 and 589-592: an image found on disk counts as downloaded
count_after_skip(downloaded) == downloaded + 1

\* process_product lines 548-599: one image
Process_Image ==
    /\ pc = "proc_img"
    /\ img_i <= Len(image_urls)
    /\ LET img_url == image_urls[img_i]
       IN  \/ /\ already_present(files, cur_dir, img_url)
              /\ img_event' = "skip"
              /\ count' = count_after_skip(count)
              /\ UNCHANGED <<files, faults>>
           \/ /\ ~already_present(files, cur_dir, img_url)
              /\ Download(image_path_of(cur_dir, img_url), TRUE)
              /\ img_event' = "download_ok"
              /\ count' = count + 1
              /\ UNCHANGED faults
           \/ /\ ~already_present(files, cur_dir, img_url)
              /\ faults < MaxFaults
              /\ Download(image_path_of(cur_dir, img_url), FALSE)
              /\ img_event' = "download_failed"
              /\ faults' = faults + 1
              /\ UNCHANGED count
    /\ img_i' = img_i + 1
    /\ UNCHANGED <<run, password, start_page, end_page, auth_failure, siteVars, base_dir, dirs,
                   processed_products, pageVars, pc, cur_dir, image_urls, cons_before, fetch,
                   statVars, fetched, summaries>>

\* process_product lines 601-602 and main lines 822-841
Process_End ==
    /\ pc = "proc_img"
    /\ img_i > Len(image_urls)
    /\ total_images' = total_images + count
    /\ processed_products' =
          IF should_register(TRUE, count)
          THEN MapPut(processed_products, cur_dir[2], cur_dir[1])
          ELSE processed_products
    /\ failed_products' = failed_after(failed_products, TRUE)
    /\ idx' = idx + 1
    /\ pc' = "product"
    /\ cur_dir' = <<0, <<>>>>
    /\ image_urls' = <<>>
    /\ img_i' = 1
    /\ count' = 0
    /\ img_event' = "none"
    /\ fetch' = "none"
    /\ UNCHANGED <<run, password, start_page, end_page, auth_failure, siteVars, fsVars, page,
                   products, cons_before, total_products, total_duplicates,
                   cross_page_duplicates, fetched, summaries, faults>>

\* The worker process is terminated or killed while download_image is
\* writing: open(save_path, 'wb') has created the file and k chunks are in it.
Kill ==
    /\ pc \in {"proc_img", "cons_img"}
    /\ img_i <= Len(image_urls)
    /\ ~already_present(files, cur_dir, image_urls[img_i])
    /\ faults < MaxFaults
    /\ faults' = faults + 1
    /\ \E k \in 0..(ImageChunks - 1) :
          files' = MapPut(files, image_path_of(cur_dir, image_urls[img_i]), k)
    /\ pc' = "killed"
    /\ UNCHANGED <<run, password, start_page, end_page, auth_failure, siteVars, base_dir, dirs,
                   processed_products, page, products, idx, imageVars, statVars,
                   fetched, summaries>>

\* lines 846-894: the final summary
Main_Summary ==
    /\ pc = "summary"
    /\ summaries' = summaries + 1
    /\ pc' = "done"
    /\ UNCHANGED <<run, password, start_page, end_page, auth_failure, siteVars, fsVars,
                   processed_products, pageVars, imageVars, statVars, fetched, faults>>

\* the worker is started again on the same category and the same output tree
Restart ==
    /\ pc \in {"done", "failed", "killed"}
    /\ run < MaxRuns
    /\ run' = run + 1
    /\ pc' = "start"
    /\ auth_failure' = NoAuthFailure
    /\ processed_products' = EmptyMap
    /\ page' = start_page
    /\ products' = <<>>
    /\ idx' = 1
    /\ cur_dir' = <<0, <<>>>>
    /\ image_urls' = <<>>
    /\ img_i' = 1
    /\ count' = 0
    /\ cons_before' = {}
    /\ img_event' = "none"
    /\ fetch' = "none"
    /\ total_products' = 0
    /\ total_images' = 0
    /\ failed_products' = 0
    /\ total_duplicates' = 0
    /\ cross_page_duplicates' = <<>>
    /\ fetched' = <<>>
    /\ summaries' = 0
    /\ UNCHANGED <<password, start_page, end_page, siteVars, fsVars, faults>>

Next ==
    \/ Main_Authenticate
    \/ Main_Setup
    \/ Main_Page_Ok
    \/ Main_Page_Error
    \/ Main_Page_Locked
    \/ Product_PageDone
    \/ Consolidate_NoImages
    \/ Consolidate_Start
    \/ Consolidate_Image
    \/ Consolidate_End
    \/ Process_NoImages
    \/ Process_Start
    \/ Process_Image
    \/ Process_End
    \/ Kill
    \/ Main_Summary
    \/ Restart

CrawlNext == Next /\ UNCHANGED <<dlVars, authVars, exVars, orchVars, fnVars>>

Spec == Init /\ [][CrawlNext]_vars

(***************************************************************************)
(* Properties of the category worker                                       *)
(***************************************************************************)
\* the step handles image image_urls[img_i] of the current product
ImageStep == pc \in {"proc_img", "cons_img"} /\ img_i <= Len(image_urls)

\* the step calls download_image (it may be killed in the call)
DownloadStep ==
    /\ ImageStep
    /\ \/ img_i' = img_i + 1 /\ img_event' \in {"download_ok", "download_failed"}
       \/ pc' = "killed"

\* the file at path p exists and has content
NonEmptyAt(p) == p \in DOMAIN files /\ files[p] > 0

\* C2: an image is skipped (counted as success without calling
\* download_image) only if a file image_id+ext, or its .jpg/.jpeg sibling,
\* exists in the product directory and is non-empty.
C2_SkipOnlyNonEmpty ==
    (pc \in {"proc_img", "cons_img"} /\ img_event = "skip") =>
        LET img_url == image_urls[img_i - 1]
        IN  \/ NonEmptyAt(image_path_of(cur_dir, img_url))
            \/ has_alt_path(img_url) /\ NonEmptyAt(alt_path_of(cur_dir, img_url))

\* image_id already has a file in the directory under .jpg or .jpeg
HasJpgOrJpeg(dir, image_id) ==
    \E ext \in {EXT_JPG, EXT_JPEG} : path_in(dir, image_id, ext) \in DOMAIN files

\* C3: for an image URL whose image_id already has a .jpg or .jpeg file in
\* the target directory, neither process_product nor the consolidation
\* issues a download request or writes a file.
C3_NoDownloadWhenPresent ==
    [][(ImageStep /\ HasJpgOrJpeg(cur_dir, image_id_of(image_urls[img_i])))
          => (~DownloadStep /\ files' = files)]_vars

\* the products the worker extracts from listing page p, as the site serves it
products_of(p) == extract_products_from_page(page_links(p, listing[p])).products

\* the album under which page p lists a product whose directory name is d (0: none)
album_on(p, d) ==
    IF p \in DOMAIN listing
         /\ \E i \in 1..Len(products_of(p)) : sanitize_filename(products_of(p)[i].name) = d
    THEN LET i == CHOOSE i \in 1..Len(products_of(p)) :
                      sanitize_filename(products_of(p)[i].name) = d
         IN  products_of(p)[i].url.album
    ELSE 0

DirNames == {sanitize_filename(n) : n \in ProductNames}

\* the image ids the detail fetch of an album returned
ids_of(album) ==
    IF album \in DOMAIN detail
    THEN {image_id_of(detail[album][i]) : i \in 1..Len(detail[album])}
    ELSE {}

stems_in(dir) == {p[3] : p \in files_in(files, dir)}

\* one directory for d, under page p1, holding the image ids of both pages
ConsolidatedUnder(p1, p2, d) ==
    /\ {x \in dirs : x[2] = d} = {<<p1, d>>}
    /\ (ids_of(album_on(p1, d)) \cup ids_of(album_on(p2, d))) \subseteq stems_in(<<p1, d>>)

\* in the first run (begun on an empty tree) the name d was listed on p1 and on p2
OnBothPages(p1, p2, d) ==
    /\ p1 < p2
    /\ album_on(p1, d) # 0
    /\ album_on(p2, d) # 0

ConsolidationStep ==
    \/ pc = "cons_img"
    \/ pc = "product" /\ idx <= Len(products) /\ IsCrossPageDuplicate(products[idx])

\* the directory the product of the step was registered with
RegisteredDir ==
    IF pc = "cons_img" THEN cur_dir
    ELSE <<processed_products[sanitize_filename(products[idx].name)],
           sanitize_filename(products[idx].name)>>

\* C6: while a product is handled as a cross-page duplicate only files inside
\* the directory of the registering page are created, no directory is
\* created, and the recorded images_added is the number of files the
\* consolidation newly wrote.
C6_Consolidation ==
    [][ConsolidationStep =>
          /\ dirs' = dirs
          /\ base_dir' = base_dir
          /\ \A p \in DOMAIN files' \ DOMAIN files : <<p[1], p[2]>> = RegisteredDir
          /\ Len(cross_page_duplicates') = Len(cross_page_duplicates) + 1 =>
                LET rec == cross_page_duplicates'[Len(cross_page_duplicates')]
                IN  /\ rec.previous_page = RegisteredDir[1]
                    /\ rec.current_page = page
                    /\ IF pc = "cons_img"
                       THEN rec.images_added = Cardinality(DOMAIN files' \ cons_before)
                       ELSE rec.images_added = 0 /\ files' = files]_vars

\* page 1 has a, page 2 offers a again (as .jpeg) and b: one record, images_added = 1
C6_Witness ==
    /\ pc = "product"
    /\ page = 2
    /\ Len(cross_page_duplicates) = 1
    /\ cross_page_duplicates[1].images_added = 1
    /\ cross_page_duplicates[1].previous_page = 1
    /\ \E d \in DirNames :
          /\ {x \in dirs : x[2] = d} = {<<1, d>>}
          /\ files_in(files, <<1, d>>) = {<<1, d, "a", EXT_JPG>>, <<1, d, "b", EXT_JPG>>}
          /\ detail[album_on(2, d)] = << [id |-> "a", suffix |-> SUFFIX_JPEG],
                                         [id |-> "b", suffix |-> SUFFIX_JPG] >>

\* C7: a run over the tree left by failure-free runs, itself without
\* failure, creates no file and no directory.
C7_SecondRunCreatesNothing ==
    [][(run >= 2 /\ faults' = 0) => UNCHANGED <<base_dir, dirs, files>>]_vars

\* a second failure-free run has ended; it consolidated a product that repeats
C7_Witness ==
    /\ run = 2
    /\ pc = "done"
    /\ faults = 0
    /\ Len(cross_page_duplicates) = 1
    /\ DOMAIN files # {}

\* C8: after a second run over a fully populated tree the summary's
\* total of images downloaded is zero.
C8_SecondRunReportsZero ==
    (run >= 2 /\ pc = "done" /\ faults = 0) => total_images = 0

\* page 1 showed the lock and the authentication endpoint rejected the password
PasswordRejected ==
    /\ password
    /\ auth_failure.probe = "locked"
    /\ auth_failure.reply \in {"json_invalid", "http_error"}

NothingDone ==
    /\ fetched = <<>>
    /\ total_products = 0
    /\ run = 1 => (~base_dir /\ dirs = {} /\ DOMAIN files = {})

\* C9 as stated: after the rejected password the worker has fetched no
\* listing page, processed no product, created no directory, and has
\* emitted the final summary.
C9_Original ==
    (pc = "failed" /\ PasswordRejected) => (NothingDone /\ summaries = 1)

\* C9 (amended): after a failed authentication the worker has fetched no
\* listing page, processed no product, created no directory, and ends
\* without emitting the final summary.
C9_AuthFailureEndsRun ==
    /\ [](pc = "failed" => (NothingDone /\ summaries = 0))
    /\ [][pc' = "failed" => UNCHANGED <<base_dir, dirs, files>>]_vars

C9_Witness ==
    /\ pc = "failed"
    /\ PasswordRejected
    /\ run = 1
    /\ summaries = 0

ImageIds == {u.id : u \in ImageUrls}

C13_NoEmptyProductDir ==
    (pc = "done" /\ faults = 0) => \A d \in dirs : files_in(files, d) # {}

\* the step ends the handling of a product whose image URL request gave no URL
\* (or was never made)
NoUrlStep == pc = "product" /\ pc' = "product" /\ idx' = idx + 1

\* every answer a detail page request can meet
DetailReplies == {FetchRaised} \cup {DetailPage(urls) : urls \in ImageUrlSeqs}

\* C22: get_image_urls_from_product returns ok = False exactly when the fetch
\* or the parse raised; for a product processed by process_product that has
\* no image URL the failed-products counter is incremented when ok = False
\* and is left alone when the page was fetched and had no images; no step
\* increments the counter after a successful fetch.
C22_FailureDistinctFromEmpty ==
    /\ [](\A reply \in DetailReplies :
             get_image_urls_from_product(reply).success = (reply.kind # "raised"))
    /\ [][NoUrlStep =>
             /\ fetch' = "empty" => failed_products' = failed_products
             /\ (fetch' = "raised" /\ ~IsCrossPageDuplicate(products[idx]))
                   => failed_products' = failed_products + 1]_vars
    /\ [][failed_products' > failed_products => fetch' \in {"raised", "none"}]_vars

\* an empty album was processed: its directory is there, nothing counted as failed
C22_Witness ==
    /\ pc = "product"
    /\ run = 1
    /\ page = 1
    /\ idx = 2
    /\ fetch = "empty"
    /\ total_products = 1
    /\ failed_products = 0
    /\ faults = 0

\* C24: after a worker was killed while download_image was writing a file,
\* a later crawl of the same category over the same tree that meets no
\* failure leaves that image's file complete: when it has ended no file of
\* the tree is empty or partial.  (Only a killed write leaves such a file, and
\* a behaviour has at most MaxFaults failures, the kill being one.)
C24_KillAndResume ==
    (run >= 2 /\ pc = "done") => \A p \in DOMAIN files : files[p] = ImageChunks

\* the step requests a listing page
FetchStep == Len(fetched') > Len(fetched)

\* the first request the step makes
FirstRequest == fetched'[Len(fetched) + 1]

\* the requests the step makes
StepRequests == {fetched'[i] : i \in (Len(fetched) + 1)..Len(fetched')}

\* the page of the step is left without being processed
PageSkipped == page' = page + 1 /\ pc' \in {"page", "summary"} /\ products' = products

\* a lock page leads to one re-authentication and, by its outcome, to one
\* more request or to the next page
OneReauthPerLockedPage ==
    /\ \A i \in 1..Len(fetched) :
          LET f == fetched[i]
          IN  /\ f.retry => (f.reauth = "none" /\ i > 1 /\ fetched[i - 1].page = f.page
                             /\ ~fetched[i - 1].retry /\ fetched[i - 1].reauth = "ok")
              /\ f.reauth = "ok" => (i < Len(fetched) /\ fetched[i + 1].retry)
              /\ f.reauth = "failed" => (i < Len(fetched) => ~fetched[i + 1].retry)
              /\ f.reauth # "none" => (f.shown = "lock" /\ f.checked)
    /\ \A i, j \in 1..Len(fetched) :
          (i < j /\ fetched[i].page = fetched[j].page) => (j = i + 1 /\ fetched[j].retry)

\* what the step does with the page, by the outcome of the re-authentication
ReauthOutcome ==
    FetchStep =>
        /\ FirstRequest.page = page
        /\ FirstRequest.reauth = "failed" => PageSkipped
        /\ FirstRequest.reauth = "ok" =>
              LET again == fetched'[Len(fetched) + 2]
              IN  IF again.shown = "error" THEN PageSkipped
                  ELSE pc' = "product" /\ page' = page /\ idx' = 1

\* C25 as stated (for a worker with a password): every request for a listing
\* page that returned a page is checked for lock markers; a page that shows a
\* lock marker triggers exactly one re-authentication, after which it is
\* requested once more and processed, or skipped.
C25_Original ==
    /\ [](password =>
            \A i \in 1..Len(fetched) :
               /\ fetched[i].shown # "error" => fetched[i].checked
               /\ (fetched[i].shown = "lock" /\ ~fetched[i].retry) => fetched[i].reauth # "none")
    /\ []OneReauthPerLockedPage
    /\ [][ReauthOutcome]_vars

\* C25 (amended): with a password configured, the first request for every
\* listing page is checked for lock markers; a page whose first request shows
\* a lock marker triggers exactly one re-authentication for that page, after
\* which the page is requested once more and processed without a further
\* lock check (re-authentication succeeded; skipped if that request fails) or
\* skipped (re-authentication failed), and the crawl goes on to the next page.
C25_OneReauthPerPage ==
    /\ [](password =>
            \A i \in 1..Len(fetched) :
               /\ (fetched[i].shown # "error" /\ ~fetched[i].retry) => fetched[i].checked
               /\ (fetched[i].shown = "lock" /\ ~fetched[i].retry) => fetched[i].reauth # "none"
               /\ fetched[i].retry => ~fetched[i].checked)
    /\ []OneReauthPerLockedPage
    /\ [][ReauthOutcome]_vars

\* page 1 showed the lock, the re-authentication returned True, the page
\* requested again still shows the lock and is parsed; page 2 is reached
C25_Witness ==
    /\ password
    /\ run = 1
    /\ pc = "page"
    /\ page = 2
    /\ Len(fetched) = 2
    /\ fetched[1] = Fetch(1, "lock", TRUE, "ok", FALSE)
    /\ fetched[2] = Fetch(1, "lock", FALSE, "none", TRUE)
    /\ total_products = 0

\* the first requests of the iterations of the page loop, in order
Attempts == SelectSeq(fetched, LAMBDA f : ~f.retry)

\* C26: once the initial authentication has succeeded, for every page range
\* 1 <= start <= end and every failing listing request, the page loop
\* attempts start, start + 1, ... in this order, each page once, and has
\* attempted all of them up to end when it is over; a page whose request
\* failed adds no product and the loop goes on with the next page.
C26_EveryPageOnce ==
    /\ [](/\ \A i \in 1..Len(Attempts) : Attempts[i].page = start_page + i - 1
          /\ Len(Attempts) <= end_page - start_page + 1
          /\ pc \in {"summary", "done"} => Len(Attempts) = end_page - start_page + 1)
    /\ [][(FetchStep /\ \E f \in StepRequests : f.shown = "error") =>
             /\ total_products' = total_products
             /\ PageSkipped]_vars

\* the request for page 1 failed; page 2 was fetched and its product processed
C26_Witness ==
    /\ run = 1
    /\ pc = "done"
    /\ start_page = 1
    /\ end_page = 2
    /\ Len(fetched) = 2
    /\ fetched[1].page = 1
    /\ fetched[1].shown = "error"
    /\ fetched[2].page = 2
    /\ fetched[2].shown = "listing"
    /\ total_products = 1
    /\ total_images > 0

\* no product is being handled
NoProductInHand ==
    /\ idx > Len(products)
    /\ cur_dir = <<0, <<>>>>
    /\ image_urls = <<>>

\* the step registers a product in processed_products
RegisterStep == run' = run /\ processed_products' # processed_products

\* C27: the worker is sequential: listing pages are requested in increasing
\* page number; when a listing page is requested, and when the page number
\* moves on, every product of the page before has been handled to its end;
\* a product is registered only when its image loop is over, with the page
\* being processed; so processed_products holds only pages <= page.
C27_Sequential ==
    /\ [](/\ \A i, j \in 1..Len(fetched) : i < j => fetched[i].page <= fetched[j].page
          /\ \A i, j \in 1..Len(Attempts) : i < j => Attempts[i].page < Attempts[j].page
          /\ \A name \in DOMAIN processed_products :
                processed_products[name] \in start_page..page)
    /\ [][FetchStep => (pc = "page" /\ NoProductInHand)]_vars
    /\ [][(run' = run /\ page' # page /\ pc # "setup") =>
             (page' = page + 1 /\ NoProductInHand)]_vars
    /\ [][RegisterStep =>
             /\ pc = "proc_img"
             /\ img_i > Len(image_urls)
             /\ pc' = "product"
             /\ idx' = idx + 1
             /\ \E name \in DOMAIN processed_products' :
                   /\ processed_products' = MapPut(processed_products, name, page)
                   /\ cur_dir = <<page, name>>]_vars

\* on page 2 a product is looked up in an index that holds a product of page 1
C27_Witness ==
    /\ run = 1
    /\ pc = "product"
    /\ page = 2
    /\ idx = 1
    /\ Len(products) = 1
    /\ \E name \in DOMAIN processed_products : processed_products[name] = 1
    /\ Len(fetched) = 2

\* the step ends the image loop of process_product with no image written
\* or found: every download of the product failed
AllDownloadsFailedStep ==
    /\ pc = "proc_img"
    /\ img_i > Len(image_urls)
    /\ count = 0

\* the step ends the handling of a product whose image URL request raised
FetchFailedStep == NoUrlStep /\ fetch' = "raised"

\* C28: every product-processing failure increments the failed-products
\* counter and the loop goes on with the next product: a failed image-URL
\* fetch, an exception while processing, and image URLs found with every
\* download failed.
C28_EveryFailureCounted ==
    [][(AllDownloadsFailedStep \/ FetchFailedStep) =>
          /\ failed_products' = failed_products + 1
          /\ idx' = idx + 1
          /\ pc' = "product"]_vars

\* the step ends the normal processing of a product
ProcessEndStep == pc = "proc_img" /\ img_i > Len(image_urls) /\ pc' = "product"

\* C29: a name enters processed_products only when the normal processing of
\* the product has ended with at least one image file in its directory; a
\* registered directory always holds a file; a product whose processing
\* ended with zero images is not registered by that step; a product whose
\* name is not registered is never handled as a cross-page duplicate and,
\* when its images are processed, they go to the directory of its own page.
C29_RegisteredOnlyWithImages ==
    /\ [](\A name \in DOMAIN processed_products :
             dir_has_entries(dirs, files, <<processed_products[name], name>>))
    /\ [][RegisterStep =>
             (ProcessEndStep /\ count > 0 /\ files_in(files, cur_dir) # {})]_vars
    /\ [][(ProcessEndStep /\ count = 0) => processed_products' = processed_products]_vars
    /\ [][(NoUrlStep /\ ~IsCrossPageDuplicate(products[idx]))
             => processed_products' = processed_products]_vars
    /\ [][(/\ pc = "product"
           /\ idx <= Len(products)
           /\ sanitize_filename(products[idx].name) \notin DOMAIN processed_products)
          => /\ cross_page_duplicates' = cross_page_duplicates
             /\ pc' # "cons_img"
             /\ pc' = "proc_img" =>
                   cur_dir' = <<page, sanitize_filename(products[idx].name)>>]_vars

\* page 1 left an empty directory for the name (its only download failed);
\* page 2 lists the name again and processes it into its own directory
C29_Witness ==
    /\ run = 1
    /\ page = 2
    /\ pc = "proc_img"
    /\ processed_products = EmptyMap
    /\ cross_page_duplicates = <<>>
    /\ faults = 1
    /\ \E name \in DirNames :
          /\ <<1, name>> \in dirs
          /\ files_in(files, <<1, name>>) = {}
          /\ ids_of(album_on(1, name)) # {}
          /\ cur_dir = <<2, name>>

(***************************************************************************)
(* The category worker on a site whose first page lists two products with  *)
(* distinct names that sanitize to the same directory name; the worker is  *)
(* run on that page alone                                                  *)
(***************************************************************************)
T_AmB == <<"A", "-", "B">>

\* the names "A/B" and "A-B", in document order
SamePageNames == <<T_AsB, T_AmB>>

Init_SamePage ==
    /\ PureIdle
    /\ OrchIdle
    /\ FnIdle
    /\ run = 1
    /\ pc = "start"
    /\ password \in BOOLEAN
    /\ start_page = START_PAGE
    /\ end_page = START_PAGE
    /\ listing = MapPut(EmptyMap, START_PAGE, SamePageNames)
    /\ detail = EmptyMap
    /\ base_dir = FALSE
    /\ dirs = {}
    /\ files = EmptyMap
    /\ faults = 0
    /\ WorkerStart

Spec_SamePage == Init_SamePage /\ [][CrawlNext]_vars

\* C30: every cross-page duplicate record of a run has
\* previous_page < current_page, also when two distinct names of one page
\* sanitize to the same directory name.
C30_DuplicateOnlyFromEarlierPage ==
    \A i \in 1..Len(cross_page_duplicates) :
        cross_page_duplicates[i].previous_page < cross_page_duplicates[i].current_page

\* C37: the worker never deletes a product directory and never deletes or
\* overwrites an image file that is already there and non-empty: no step of
\* a run (a whole download_image call, with the removals of its failed
\* attempts, is one step) takes away a directory or changes a non-empty
\* file, so every image file that existed before a run exists unchanged
\* after it.
C37_ExistingFilesUntouched ==
    [][/\ dirs \subseteq dirs'
       /\ \A p \in DOMAIN files :
             files[p] > 0 => (p \in DOMAIN files' /\ files'[p] = files[p])]_vars

\* a second run meets an image of the first run in the product directory and
\* passes over it
C37_Witness ==
    /\ run = 2
    /\ pc = "proc_img"
    /\ img_i = 2
    /\ img_event = "skip"
    /\ \E p \in files_in(files, cur_dir) : files[p] = ImageChunks

\* the directory registered for product name n
RegisteredDirOf(n) == <<processed_products[n], n>>

\* C38: once a product name is registered in processed_products with its
\* page and directory, the entry is neither overwritten nor removed for the
\* rest of the run, and at every later point the registered directory exists
\* and holds at least one file (nothing but the worker touches the tree).
C38_ProcessedIndexStable ==
    /\ [][run' = run =>
            \A n \in DOMAIN processed_products :
                /\ n \in DOMAIN processed_products'
                /\ processed_products'[n] = processed_products[n]]_vars
    /\ [](\A n \in DOMAIN processed_products :
             /\ RegisteredDirOf(n) \in dirs
             /\ files_in(files, RegisteredDirOf(n)) # {})

\* the product registered on the first page was met again on the second
\* page, and the run has ended with the entry of the first page
C38_Witness ==
    /\ pc = "done"
    /\ cross_page_duplicates # <<>>
    /\ \E n \in DOMAIN processed_products :
          /\ processed_products[n] = START_PAGE
          /\ cross_page_duplicates[1].previous_page = START_PAGE
          /\ sanitize_filename(cross_page_duplicates[1].name) = n

(***************************************************************************)
(* One run of the worker that nothing stops from outside: every step of    *)
(* main is taken when it is its turn (a sequential program), no signal     *)
(* ends the process, the worker is not started again.                      *)
(***************************************************************************)
WorkerStep ==
    /\ \/ Main_Authenticate
       \/ Main_Setup
       \/ Main_Page_Ok
       \/ Main_Page_Error
       \/ Main_Page_Locked
       \/ Product_PageDone
       \/ Consolidate_NoImages
       \/ Consolidate_Start
       \/ Consolidate_Image
       \/ Consolidate_End
       \/ Process_NoImages
       \/ Process_Start
       \/ Process_Image
       \/ Process_End
       \/ Main_Summary
    /\ UNCHANGED <<dlVars, authVars, exVars, orchVars, fnVars>>

Spec_Run == Init /\ [][WorkerStep]_vars /\ WF_vars(WorkerStep)

\* the numbers of the summary, lines 851-853
SummaryAttempted == total_products

SummarySucceeded == total_products - failed_products

SummaryFailed == failed_products

\* the summary has been printed and main has returned
Done == pc = "done"

MaxJobs == 2

\* Python None (and the empty string): falsy
None == <<>>

T_1 == <<"1">>

T_2 == <<"2">>

Urls == { [host |-> "h1", id |-> T_1], [host |-> "h2", id |-> T_1],
          [host |-> "h1", id |-> T_2] }

NoUrl == [host |-> "", id |-> <<>>]

JobKeys == {"url", "name", "start_page", "end_page"}

Jobs ==
    { j \in [url : Urls \cup {NoUrl}, name : {None, T_A}, missing : {"none"} \cup JobKeys] :
        /\ (j.missing = "url") <=> (j.url = NoUrl)
        /\ (j.missing = "name") => (j.name = None) }

JobLists == UNION { [1..n -> Jobs] : n \in 1..MaxJobs }

\* collection[key] raises KeyError
raises_KeyError(job, key) == job.missing = key

\* collection['url'].split('/')[-1]
category_id_of(job) == job.url.id

T_Categoria_ == <<"C", "a", "t", "e", "g", "o", "r", "i", "a", "_">>

T_Yupoo_Downloads ==
    <<"Y", "u", "p", "o", "o", "_", "D", "o", "w", "n", "l", "o", "a", "d", "s">>

T_log == <<".", "l", "o", "g">>

\* what extract_category_name_fast / extract_category_name can return
ExtractedNames == {None, T_AsB}

\* a resolution without the id-based fallback
get_category_name_no_fallback(collection, extracted) ==
    IF collection.name # None THEN collection.name ELSE extracted

\* get_category_name, lines 283-297; extracted is what extract_category_name_fast returns
get_category_name(collection, extracted) ==
    IF collection.name # None THEN collection.name
    ELSE IF extracted # None THEN extracted
    ELSE T_Categoria_ \o category_id_of(collection)

\* the length cap of the orchestrator's sanitize_filename
MaxLogNameLen == 200

\* sanitize_filename of download_multiple_collections.py, lines 78-87
orch_sanitize_filename(filename) ==
    LET cleaned == remove_nul(replace_separators(filename))
    IN  strip(IF Len(cleaned) > MaxLogNameLen THEN SubSeq(cleaned, 1, MaxLogNameLen)
              ELSE cleaned)

\* lines 354-355: logs_dir / f"{sanitized_name}_{category_id}.log"
log_file_of(category_name, category_id) ==
    orch_sanitize_filename(category_name) \o <<"_">> \o category_id \o T_log

\* how the category name resolution of a worker ends (worker main, lines 644-666)
WorkerNameOutcomes == {"extracted", "not_found", "raised"}

\* the directory name under yupoo_downloads/ a worker writes to: --name is passed
\* only when collection['name'] is truthy (line 343), else the worker resolves it
worker_root(collection, outcome) ==
    IF collection.name # None THEN sanitize_filename(collection.name)
    ELSE IF outcome = "extracted" THEN sanitize_filename(T_AsB)
    ELSE IF outcome = "not_found"
         THEN sanitize_filename(T_Categoria_ \o category_id_of(collection))
    ELSE sanitize_filename(T_Yupoo_Downloads)

\* Popen.returncode of a process ended by a signal is the negated signal number
SIGTERM == 15

SIGKILL == 9

\* the exit statuses of a worker that ends in this state
ExitCodes(state) == IF state = "terminating" THEN {-SIGTERM} ELSE {0, 1}

\* lines 395-396 and 439-440: log_handle.flush(); log_handle.close()
flush_close(handle) == [handle EXCEPT !.open = FALSE, !.closes = @ + 1]

\* process.poll() is None
poll_is_None(w) == w.state \in {"running", "terminating"}

\* a loop that launches as soon as one name is resolved
after_resolve_first(i) == [pc |-> "cmd", idx |-> 1]

\* the loop over COLLECTIONS of lines 324-329 goes on, or the launch loop begins
after_resolve(i) ==
    IF i < Len(COLLECTIONS) THEN [pc |-> "resolve", idx |-> i + 1]
    ELSE [pc |-> "cmd", idx |-> 1]

\* processes.remove(proc_info): the first equal element goes
RECURSIVE list_remove(_, _)
list_remove(lst, x) ==
    IF lst = <<>> THEN <<>>
    ELSE IF Head(lst) = x THEN Tail(lst)
    ELSE <<Head(lst)>> \o list_remove(Tail(lst), x)

\* the workers recorded in processes
recorded_workers == {processes[i].w : i \in 1..Len(processes)}

\* lines 436-442: the first proc_info whose handle is already closed, or 0;
\* flush() on a closed file raises ValueError, which the handler does not catch
first_closed ==
    IF \E i \in 1..Len(processes) : ~log_handles[processes[i].h].open
    THEN CHOOSE i \in 1..Len(processes) :
            /\ ~log_handles[processes[i].h].open
            /\ \A j \in 1..(i - 1) : log_handles[processes[j].h].open
    ELSE 0

Init_Orch ==
    /\ PureIdle
    /\ MainIdle
    /\ FnIdle
    /\ COLLECTIONS \in JobLists
    /\ orch_pc = "resolve"
    /\ orch_idx = 1
    /\ category_names = EmptyMap
    /\ resolved = <<>>
    /\ log_handles = <<>>
    /\ workers = <<>>
    /\ processes = <<>>
    /\ scan = <<>>
    /\ interrupted = FALSE
    /\ reports = <<>>

\* lines 324-329: the name of one collection is resolved
O_Resolve ==
    /\ orch_pc = "resolve"
    /\ LET collection == COLLECTIONS[orch_idx]
       IN  \/ /\ raises_KeyError(collection, "url")             \* line 325
              /\ orch_pc' = "KeyError"
              /\ UNCHANGED <<orch_idx, category_names, resolved>>
           \/ /\ ~raises_KeyError(collection, "url")
              /\ \E extracted \in ExtractedNames :
                    category_names' = MapPut(category_names, category_id_of(collection),
                                             get_category_name(collection, extracted))
              /\ resolved' = Append(resolved, orch_idx)
              /\ orch_pc' = after_resolve(orch_idx).pc
              /\ orch_idx' = after_resolve(orch_idx).idx
    /\ UNCHANGED <<nonOrchVars, reports, COLLECTIONS, log_handles, workers, processes, scan, interrupted>>

\* lines 333-351: the command line of one collection is built
O_Cmd ==
    /\ orch_pc = "cmd"
    /\ LET collection == COLLECTIONS[orch_idx]
       IN  IF \/ raises_KeyError(collection, "name")            \* line 343
              \/ raises_KeyError(collection, "start_page")      \* line 350
              \/ raises_KeyError(collection, "end_page")        \* line 351
           THEN orch_pc' = "KeyError"
           ELSE orch_pc' = "open"
    /\ UNCHANGED <<nonOrchVars, reports, COLLECTIONS, orch_idx, category_names, resolved, log_handles, workers,
                   processes, scan, interrupted>>

\* lines 354-359: the log file is opened for writing
O_Open ==
    /\ orch_pc = "open"
    /\ LET category_id == category_id_of(COLLECTIONS[orch_idx])
       IN  log_handles' = Append(log_handles,
               [path |-> log_file_of(category_names[category_id], category_id),
                open |-> TRUE, closes |-> 0])
    /\ orch_pc' = "popen"
    /\ UNCHANGED <<nonOrchVars, reports, COLLECTIONS, orch_idx, category_names, resolved, workers, processes,
                   scan, interrupted>>

\* lines 363-368: subprocess.Popen
O_Popen ==
    /\ orch_pc = "popen"
    /\ workers' = Append(workers, [job |-> orch_idx, state |-> "running", root |-> None,
                                   returncode |-> None,
                                   log |-> log_handles[Len(log_handles)].path])
    /\ orch_pc' = "append"
    /\ UNCHANGED <<nonOrchVars, reports, COLLECTIONS, orch_idx, category_names, resolved, log_handles,
                   processes, scan, interrupted>>

\* lines 371-380: the proc_info is recorded; after the last one the wait loop begins
O_Append ==
    /\ orch_pc = "append"
    /\ processes' = Append(processes, [w |-> Len(workers), h |-> Len(log_handles)])
    /\ IF orch_idx < Len(COLLECTIONS)
       THEN /\ orch_idx' = orch_idx + 1
            /\ orch_pc' = "cmd"
            /\ scan' = scan
       ELSE /\ orch_idx' = orch_idx
            /\ orch_pc' = "wait"
            /\ scan' = processes'
    /\ UNCHANGED <<nonOrchVars, reports, COLLECTIONS, category_names, resolved, log_handles, workers,
                   interrupted>>

\* a loop that waits for the process it is looking at
scan_after_alive_blocking(s) == s

\* lines 390-391: poll() does not block; a process that is alive is passed over
scan_after_alive(s) == Tail(s)

\* lines 389-398 and 411-417: one proc_info of the copy is polled
O_Poll ==
    /\ orch_pc = "wait"
    /\ \/ /\ scan = <<>>
          /\ processes = <<>>
          /\ orch_pc' = "done"
          /\ UNCHANGED <<scan, log_handles>>
       \/ /\ scan = <<>>
          /\ processes # <<>>
          /\ scan' = processes
          /\ UNCHANGED <<orch_pc, log_handles>>
       \/ /\ scan # <<>>
          /\ poll_is_None(workers[Head(scan).w])
          /\ scan' = scan_after_alive(scan)
          /\ UNCHANGED <<orch_pc, log_handles>>
       \/ /\ scan # <<>>
          /\ ~poll_is_None(workers[Head(scan).w])
          /\ log_handles' = [log_handles EXCEPT ![Head(scan).h] = flush_close(@)]
          /\ orch_pc' = "remove"
          /\ scan' = scan
    /\ UNCHANGED <<nonOrchVars, reports, COLLECTIONS, orch_idx, category_names, resolved, workers, processes,
                   interrupted>>

\* lines 401-409: the exit status of the finished process is printed and
\* its proc_info is removed
O_Remove ==
    /\ orch_pc = "remove"
    /\ reports' = Append(reports, [w |-> Head(scan).w,
                                   return_code |-> workers[Head(scan).w].returncode])
    /\ processes' = list_remove(processes, Head(scan))
    /\ scan' = Tail(scan)
    /\ orch_pc' = "wait"
    /\ UNCHANGED <<nonOrchVars, COLLECTIONS, orch_idx, category_names, resolved, log_handles, workers,
                   interrupted>>

\* KeyboardInterrupt is raised inside the try block, lines 320-417
Interrupt ==
    /\ orch_pc \in {"resolve", "cmd", "open", "popen", "append", "wait", "remove"}
    /\ interrupted' = TRUE
    /\ orch_pc' = "int_terminate"
    /\ UNCHANGED <<nonOrchVars, reports, COLLECTIONS, orch_idx, category_names, resolved, log_handles, workers,
                   processes, scan>>

\* lines 421-425: terminate() to every recorded process that is alive
Int_Terminate ==
    /\ orch_pc = "int_terminate"
    /\ workers' = [k \in 1..Len(workers) |->
                      IF k \in recorded_workers /\ poll_is_None(workers[k])
                      THEN [workers[k] EXCEPT !.state = "terminating"]
                      ELSE workers[k]]
    /\ orch_pc' = "int_kill"
    /\ UNCHANGED <<nonOrchVars, reports, COLLECTIONS, orch_idx, category_names, resolved, log_handles,
                   processes, scan, interrupted>>

\* lines 428-433: after the grace period, kill() to every recorded process still alive
Int_Kill ==
    /\ orch_pc = "int_kill"
    /\ workers' = [k \in 1..Len(workers) |->
                      IF k \in recorded_workers /\ poll_is_None(workers[k])
                      THEN [workers[k] EXCEPT !.state = "killed", !.returncode = -SIGKILL]
                      ELSE workers[k]]
    /\ orch_pc' = "int_close"
    /\ UNCHANGED <<nonOrchVars, reports, COLLECTIONS, orch_idx, category_names, resolved, log_handles,
                   processes, scan, interrupted>>

\* lines 436-442: flush() and close() of the handle of every recorded process
Int_Close ==
    /\ orch_pc = "int_close"
    /\ LET closed_upto == IF first_closed = 0 THEN Len(processes) ELSE first_closed - 1
           closed == {processes[i].h : i \in 1..closed_upto}
       IN  log_handles' = [h \in 1..Len(log_handles) |->
                              IF h \in closed THEN flush_close(log_handles[h])
                              ELSE log_handles[h]]
    /\ orch_pc' = IF first_closed = 0 THEN "done" ELSE "ValueError"
    /\ UNCHANGED <<nonOrchVars, reports, COLLECTIONS, orch_idx, category_names, resolved, workers, processes,
                   scan, interrupted>>

\* a worker process resolves its category name and makes its output root
\* (worker main, lines 643-678)
Worker_Root ==
    /\ \E k \in 1..Len(workers) : \E outcome \in WorkerNameOutcomes :
          /\ workers[k].state = "running"
          /\ workers[k].root = None
          /\ workers' = [workers EXCEPT
                            ![k].root = worker_root(COLLECTIONS[workers[k].job], outcome)]
    /\ UNCHANGED <<nonOrchVars, reports, COLLECTIONS, orch_pc, orch_idx, category_names, resolved, log_handles,
                   processes, scan, interrupted>>

\* a worker process ends: by itself (main returns, also after a failed
\* authentication: 0; an uncaught exception: 1) or on the terminate signal
Worker_Exit ==
    /\ \E k \in 1..Len(workers) :
          /\ poll_is_None(workers[k])
          /\ \E c \in ExitCodes(workers[k].state) :
                workers' = [workers EXCEPT ![k].state = "exited", ![k].returncode = c]
    /\ UNCHANGED <<nonOrchVars, reports, COLLECTIONS, orch_pc, orch_idx, category_names, resolved, log_handles,
                   processes, scan, interrupted>>

Next_Orch ==
    \/ O_Resolve
    \/ O_Cmd
    \/ O_Open
    \/ O_Popen
    \/ O_Append
    \/ O_Poll
    \/ O_Remove
    \/ Interrupt
    \/ Int_Terminate
    \/ Int_Kill
    \/ Int_Close
    \/ Worker_Root
    \/ Worker_Exit

Spec_Orch == Init_Orch /\ [][Next_Orch]_vars

(***************************************************************************)
(* Properties of the orchestrator                                          *)
(***************************************************************************)
\* the orchestrator has left main
OrchExited == orch_pc \in {"done", "KeyError", "ValueError"}

\* C14: if KeyboardInterrupt arrived after the first worker was started, then
\* when the orchestrator exits no spawned worker is still running and every
\* opened log handle has been flushed and closed.  (The handler starts no
\* worker, so the workers at the exit are those started before the signal.)
C14_CancelStopsEverything ==
    (interrupted /\ workers # <<>> /\ OrchExited) =>
        /\ \A k \in 1..Len(workers) : ~poll_is_None(workers[k])
        /\ \A h \in 1..Len(log_handles) : ~log_handles[h].open

\* C15: no two launched workers are given the same log file path.
C15_DistinctLogFiles ==
    \A i, j \in 1..Len(workers) : i # j => workers[i].log # workers[j].log

\* C16: the names of all configured jobs are resolved, one at a time and in
\* configuration order, before the first worker is launched; the orchestrator
\* looks at the status of a worker only after all N workers were started.
C16_ResolveThenLaunchAll ==
    /\ \A i \in 1..Len(resolved) : resolved[i] = i
    /\ workers # <<>> => Len(resolved) = Len(COLLECTIONS)
    /\ orch_pc \in {"wait", "remove"} => Len(workers) = Len(COLLECTIONS)

\* the second worker has just been started while the first is still running
C16_Witness ==
    /\ orch_pc = "append"
    /\ resolved = <<1, 2>>
    /\ Len(workers) = 2
    /\ workers[1].state = "running"
    /\ workers[2].state = "running"

\* C17: no two workers that are running at the same time, started for
\* different categories, write under the same category root directory.
C17_DistinctRoots ==
    \A i, j \in 1..Len(workers) :
        (/\ category_id_of(COLLECTIONS[workers[i].job])
                # category_id_of(COLLECTIONS[workers[j].job])
         /\ poll_is_None(workers[i]) /\ workers[i].root # None
         /\ poll_is_None(workers[j]) /\ workers[j].root # None)
        => workers[i].root # workers[j].root

\* C18: the orchestrator never stops with a configuration error (KeyError on
\* a job record) after having started a worker.
C18_ConfigErrorBeforeLaunch ==
    orch_pc = "KeyError" => workers = <<>>

(***************************************************************************)
(* The orchestrator under fairness.  Spec_OrchFair: the orchestrator takes *)
(* its next step when it has one; a worker may run for ever and Ctrl-C may *)
(* arrive.  Spec_OrchAllExit: no Ctrl-C, and every worker ends.            *)
(***************************************************************************)
OrchStep ==
    \/ O_Resolve
    \/ O_Cmd
    \/ O_Open
    \/ O_Popen
    \/ O_Append
    \/ O_Poll
    \/ O_Remove
    \/ Int_Terminate
    \/ Int_Kill
    \/ Int_Close

Spec_OrchFair == Init_Orch /\ [][Next_Orch]_vars /\ WF_vars(OrchStep)

Next_OrchNoCancel ==
    \/ O_Resolve
    \/ O_Cmd
    \/ O_Open
    \/ O_Popen
    \/ O_Append
    \/ O_Poll
    \/ O_Remove
    \/ Worker_Root
    \/ Worker_Exit

Spec_OrchAllExit ==
    Init_Orch /\ [][Next_OrchNoCancel]_vars
              /\ WF_vars(Next_OrchNoCancel) /\ WF_vars(Worker_Exit)

\* the orchestrator is in the wait loop, lines 389-412
InWaitLoop == orch_pc \in {"wait", "remove"}

\* worker k has been launched and has ended
Ended(k) == k <= Len(workers) /\ ~poll_is_None(workers[k])

\* the statuses the wait loop printed for worker k
ReportsOf(k) == {i \in 1..Len(reports) : reports[i].w = k}

\* the wait loop has seen the end of worker k: its log handle is closed and
\* its exit status is printed
Detected(k) ==
    /\ k <= Len(workers)
    /\ ~log_handles[k].open
    /\ \E i \in ReportsOf(k) : reports[i].return_code = workers[k].returncode

\* a worker ends in this step
WorkerEnds(k) == k <= Len(workers) /\ poll_is_None(workers[k]) /\ ~poll_is_None(workers[k])'

\* C33: a worker that crashes (non-zero exit), aborts, or never terminates
\* does not keep the orchestrator from detecting the end of every other
\* worker, closing its log handle and recording its exit status (unless
\* Ctrl-C ends the wait); the end of a worker changes neither the
\* orchestrator's position nor any other worker.
C33_Isolation ==
    /\ \A k \in 1..MaxJobs : (InWaitLoop /\ Ended(k)) ~> (interrupted \/ Detected(k))
    /\ [][\A k \in 1..MaxJobs :
            (WorkerEnds(k) /\ ~interrupted) =>
                /\ orch_pc' = orch_pc
                /\ \A j \in 1..Len(workers) : j # k => workers'[j] = workers[j]]_vars

\* the first worker is still running; the second crashed, and its status is
\* recorded and its log closed
C33_Witness ==
    /\ ~interrupted
    /\ Len(workers) = 2
    /\ workers[1].state = "running"
    /\ workers[2].state = "exited"
    /\ workers[2].returncode = 1
    /\ Detected(2)
    /\ log_handles[1].open

\* C34: if every worker eventually exits and there is no cancellation, the
\* orchestrator eventually terminates; when it has, the exit status of each
\* launched job was recorded exactly once and each job's log handle was
\* flushed and closed exactly once; it never reports that all downloads are
\* completed while a worker is still running.
C34_AllRecordedBeforeExit ==
    /\ <>OrchExited
    /\ [](OrchExited =>
            \A k \in 1..Len(workers) :
                /\ Cardinality(ReportsOf(k)) = 1
                /\ log_handles[k].closes = 1)
    /\ [](orch_pc = "done" => \A k \in 1..Len(workers) : ~poll_is_None(workers[k]))

(***************************************************************************)
(* Category name resolution of the orchestrator on its own:                *)
(* get_category_name over extract_category_name_fast (lines 181-297).      *)
(*                                                                         *)
(* What the extraction meets: auth is what authenticate_if_needed returns, *)
(* fetch is "ok" or "raised" (the request or the parse raises), tiers[k]   *)
(* is the name the k-th search of the page yields (None: no match).        *)
(***************************************************************************)
NameTiers == 4

TierNames == {None, T_AsB, T_88}

NameNets == [auth : BOOLEAN, fetch : {"ok", "raised"}, tiers : [1..NameTiers -> TierNames]]

\* lines 209-279: the first search that yields a name
RECURSIVE first_tier_match(_, _)
first_tier_match(tiers, k) ==
    IF k > Len(tiers) THEN None
    ELSE IF tiers[k] # None THEN tiers[k]
    ELSE first_tier_match(tiers, k + 1)

\* extract_category_name_fast, lines 181-281
extract_category_name_fast(pw, net) ==
    IF pw /\ ~net.auth THEN None                        \* lines 197-199
    ELSE IF net.fetch = "raised" THEN None              \* lines 280-281
    ELSE first_tier_match(net.tiers, 1)

\* the job records get_category_name is called with: main has read
\* collection['url'] before (line 325)
NamedJobs == {j \in Jobs : ~raises_KeyError(j, "url")}

Init_Name ==
    /\ PureIdle
    /\ MainIdle
    /\ OrchIdle
    /\ fn_in \in [collection : NamedJobs, password : BOOLEAN, net : NameNets]
    /\ fn_out = <<>>

Name_Call ==
    /\ fn_out = <<>>
    /\ fn_out' = <<get_category_name(fn_in.collection,
                       extract_category_name_fast(fn_in.password, fn_in.net))>>
    /\ UNCHANGED <<fn_in, dlVars, authVars, exVars, mainVars, orchVars>>

Next_Name == Name_Call

Spec_Name == Init_Name /\ [][Next_Name]_vars

\* the extraction failed: authentication failure, network exception, or no
\* search of the page yields a name
ExtractionFailed ==
    \/ fn_in.password /\ ~fn_in.net.auth
    \/ fn_in.net.fetch = "raised"
    \/ \A k \in 1..NameTiers : fn_in.net.tiers[k] = None

\* the first name the searches of the page yield, in order
FirstTierName ==
    LET k == CHOOSE k \in 1..NameTiers :
                 /\ fn_in.net.tiers[k] # None
                 /\ \A j \in 1..(k - 1) : fn_in.net.tiers[j] = None
    IN  fn_in.net.tiers[k]

T_Category_ == <<"C", "a", "t", "e", "g", "o", "r", "y", "_">>

\* the resolution with the given prefix of the id-based fallback
NameResolution(prefix) ==
    fn_out # <<>> =>
        /\ fn_out[1] # None
        /\ fn_in.collection.name # None => fn_out[1] = fn_in.collection.name
        /\ (fn_in.collection.name = None /\ ~ExtractionFailed) => fn_out[1] = FirstTierName
        /\ (fn_in.collection.name = None /\ ExtractionFailed)
              => fn_out[1] = prefix \o category_id_of(fn_in.collection)

\* C23 as stated: the resolved name is never empty or null; a configured
\* name wins; otherwise the extracted name is used; on every failure of the
\* extraction the result is Category_<id>.
C23_Original == NameResolution(T_Category_)

\* C23 (amended): as stated, with the fallback Categoria_<id> built from the
\* last segment of the job URL.
C23_NameNeverEmpty == NameResolution(T_Categoria_)

\* no configured name, the password is rejected although the page would match
C23_Witness ==
    /\ fn_out # <<>>
    /\ fn_in.collection.name = None
    /\ fn_in.password
    /\ ~fn_in.net.auth
    /\ fn_in.net.fetch = "ok"
    /\ fn_in.net.tiers[1] = T_AsB
    /\ fn_out[1] = T_Categoria_ \o category_id_of(fn_in.collection)

(***************************************************************************)
(* Where the images of a product go: the name the extractor accepts        *)
(* (lines 323-336), sanitize_filename, and                                 *)
(* product_dir = base_dir / str(page_num) / product_name (lines 526-531),  *)
(* image_path = product_dir / filename (line 574).                         *)
(***************************************************************************)
MaxNameChars == 3

\* the characters of a product name on the site; "NUL" is chr(0)
NameChars == {".", "/", "NUL", " ", "A"}

RawNames == UNION { [1..n -> NameChars] : n \in 0..MaxNameChars }

T_yupoo_downloads ==
    <<"y", "u", "p", "o", "o", "_", "d", "o", "w", "n", "l", "o", "a", "d", "s">>

T_a_jpg == <<"a", ".", "j", "p", "g">>

\* base_dir / str(page_num) for category "A", page 1, as path components
page_dir_parts == <<T_yupoo_downloads, T_A, <<"1">>>>

\* the directory the operating system resolves a path to: an empty component
\* and "." stay in place, ".." goes to the parent
RECURSIVE resolve_parts(_, _)
resolve_parts(parts, acc) ==
    IF parts = <<>> THEN acc
    ELSE IF Head(parts) \in {<<>>, <<".">>} THEN resolve_parts(Tail(parts), acc)
    ELSE IF Head(parts) = <<".", ".">>
         THEN resolve_parts(Tail(parts),
                            IF acc = <<>> THEN acc ELSE SubSeq(acc, 1, Len(acc) - 1))
    ELSE resolve_parts(Tail(parts), Append(acc, Head(parts)))

\* lines 526-531 and 574: where the file image_id + ext of a product is written
image_path_parts(product_name, filename) ==
    resolve_parts(page_dir_parts \o <<sanitize_filename(product_name), filename>>, <<>>)

Init_Path ==
    /\ PureIdle
    /\ MainIdle
    /\ OrchIdle
    /\ fn_in \in RawNames
    /\ fn_out = <<>>

\* the extractor's filter, then process_product's path
Path_Call ==
    /\ fn_out = <<>>
    /\ fn_out' = <<[accepted |-> name_accepted(fn_in),
                    product_name |-> sanitize_filename(strip(fn_in)),
                    image_path |-> image_path_parts(strip(fn_in), T_a_jpg)]>>
    /\ UNCHANGED <<fn_in, dlVars, authVars, exVars, mainVars, orchVars>>

Next_Path == Path_Call

Spec_Path == Init_Path /\ [][Next_Path]_vars

\* C19: for every product name the extractor accepts, the sanitized name is
\* a single non-empty path component and the image file lies at exactly
\* yupoo_downloads/<category>/<page>/<product_name>/<image_id><ext>.
C19_FilesInsideProductDir ==
    (fn_out # <<>> /\ fn_out[1].accepted) =>
        /\ fn_out[1].product_name # <<>>
        /\ \A i \in 1..Len(fn_out[1].product_name) :
              fn_out[1].product_name[i] \notin {"/", "\\"}
        /\ fn_out[1].image_path = page_dir_parts \o <<fn_out[1].product_name, T_a_jpg>>

(***************************************************************************)
(* get_image_urls_from_product on the markup of a detail page,             *)
(* lines 379-432.                                                          *)
(*                                                                         *)
(* A URL string is a sequence of tokens ("https:", "//", a host, "/", a    *)
(* path word, ".", "?", ...): `x in src` is the presence of the run of     *)
(* tokens of x, src.startswith(x) a test of the first tokens.  An element  *)
(* of the page is [tag, gallery, src]: tag "img" (gallery: its class has   *)
(* image__img or showalbum__bigimg; src: its src / data-src /              *)
(* data-original) or "div" (src: the text inside url(...) of its           *)
(* background-image style).                                                *)
(***************************************************************************)
CDN_HOST == "photo.yupoo.com"

\* run in src
RECURSIVE has_run(_, _)
has_run(u, r) ==
    IF Len(u) < Len(r) THEN FALSE
    ELSE IF SubSeq(u, 1, Len(r)) = r THEN TRUE
    ELSE has_run(Tail(u), r)

\* src.startswith('//')
startswith_slashes(u) == u # <<>> /\ u[1] = "//"

\* src.startswith('http')
url_startswith_http(u) == u # <<>> /\ u[1] \in {"http:", "https:"}

\* lines 388-389: 'https:' + src
upgrade_protocol_relative(u) == IF startswith_slashes(u) THEN <<"https:">> \o u ELSE u

\* re.sub(r'\?.*$', '', src)
RECURSIVE strip_query(_)
strip_query(u) ==
    IF u = <<>> \/ Head(u) = "?" THEN <<>> ELSE <<Head(u)>> \o strip_query(Tail(u))

\* src.replace('/small.', '/large.')
small_to_large(u) ==
    [i \in 1..Len(u) |->
        IF /\ u[i] = "small"
           /\ i > 1 /\ u[i - 1] = "/"
           /\ i < Len(u) /\ u[i + 1] = "."
        THEN "large" ELSE u[i]]

\* lines 391, 408, 422: 'photo.yupoo.com' in src
cdn_filter(u) == has_run(u, <<CDN_HOST>>)

\* lines 393-395: the query goes, small becomes large
clean_url(u) == small_to_large(strip_query(u))

\* lines 385-395 and 417-424: the URL an <img> contributes, <<>> when none
url_of_img(src) ==
    LET u == upgrade_protocol_relative(src)
    IN  IF src # <<>> /\ url_startswith_http(u) /\ cdn_filter(u) THEN clean_url(u) ELSE <<>>

\* line 403: the regular expression matches https?://... or //...
style_url_matches(src) ==
    \/ startswith_slashes(src)
    \/ Len(src) >= 2 /\ url_startswith_http(src) /\ src[2] = "//"

\* lines 402-410: the URL a <div> with a background image contributes
url_of_div(src) ==
    LET u == upgrade_protocol_relative(src)
    IN  IF style_url_matches(src) /\ cdn_filter(u) THEN clean_url(u) ELSE <<>>

\* lines 426-429: the asset paths left out by the third search
is_asset_path(u) ==
    \/ has_run(u, <<"/", "static", "/">>)
    \/ has_run(u, <<"/", "website", "/">>)
    \/ has_run(u, <<"/", "icons", "/">>)

\* `if src not in image_urls: image_urls.append(src)`
append_new(image_urls_, u) ==
    IF u = <<>> \/ \E i \in 1..Len(image_urls_) : image_urls_[i] = u
    THEN image_urls_ ELSE Append(image_urls_, u)

\* lines 383-397: <img> elements with a gallery class
RECURSIVE method1(_, _)
method1(elems, acc) ==
    IF elems = <<>> THEN acc
    ELSE LET e == Head(elems)
         IN  method1(Tail(elems),
                     IF e.tag = "img" /\ e.gallery THEN append_new(acc, url_of_img(e.src))
                     ELSE acc)

\* lines 400-412: <div> elements with a background-image style
RECURSIVE method2(_, _)
method2(elems, acc) ==
    IF elems = <<>> THEN acc
    ELSE LET e == Head(elems)
         IN  method2(Tail(elems),
                     IF e.tag = "div" THEN append_new(acc, url_of_div(e.src)) ELSE acc)

\* lines 415-430: every <img>, asset paths left out
RECURSIVE method3(_, _)
method3(elems, acc) ==
    IF elems = <<>> THEN acc
    ELSE LET e == Head(elems)
             u == url_of_img(e.src)
         IN  method3(Tail(elems),
                     IF e.tag = "img" /\ ~is_asset_path(u) THEN append_new(acc, u) ELSE acc)

\* lines 379-432: the list returned with success = True
collect_image_urls(elems) == method3(elems, method2(elems, method1(elems, <<>>)))

\* most elements of a detail page
MaxElems == 2

\* the URL strings tried
U_small == <<"https:", "//", CDN_HOST, "/", "a", "/", "small", ".", "jpg">>

U_relative_large == <<"//", CDN_HOST, "/", "a", "/", "large", ".", "jpg">>

U_query == <<"http:", "//", CDN_HOST, "/", "a", "/", "small", ".", "jpg", "?", "x">>

U_icon == <<"https:", "//", CDN_HOST, "/", "icons", "/", "b", ".", "jpg">>

U_other_host == <<"https:", "//", "other.com", "/", "a", ".", "jpg">>

U_other_host_query == <<"https:", "//", "other.com", "/", "a", ".", "jpg", "?", CDN_HOST>>

U_site_relative == <<"/", "a", ".", "jpg">>

SrcUrls ==
    {U_small, U_relative_large, U_query, U_icon, U_other_host, U_other_host_query,
     U_site_relative, <<>>}

PageElements ==
    { [tag |-> "img", gallery |-> g, src |-> u] : g \in BOOLEAN, u \in SrcUrls }
    \cup { [tag |-> "div", gallery |-> FALSE, src |-> u] : u \in SrcUrls }

DetailMarkups == UNION { [1..n -> PageElements] : n \in 0..MaxElems }

Init_Urls ==
    /\ PureIdle
    /\ MainIdle
    /\ OrchIdle
    /\ fn_in \in DetailMarkups
    /\ fn_out = <<>>

Urls_Call ==
    /\ fn_out = <<>>
    /\ fn_out' = <<collect_image_urls(fn_in)>>
    /\ UNCHANGED <<fn_in, dlVars, authVars, exVars, mainVars, orchVars>>

Next_Urls == Urls_Call

Spec_Urls == Init_Urls /\ [][Next_Urls]_vars

\* the URL is on the image CDN host with an explicit http(s) scheme
OnCdnHost(u) ==
    Len(u) >= 3 /\ u[1] \in {"http:", "https:"} /\ u[2] = "//" /\ u[3] = CDN_HOST

\* the element is looked at by one of the first two searches
InNamedTier(e) == (e.tag = "img" /\ e.gallery) \/ e.tag = "div"

\* C35: the URL list returned for a detail page has no two equal URLs; every
\* returned URL is on the image CDN host, has an explicit http(s) scheme
\* (protocol-relative inputs upgraded to https), has no query string and
\* does not contain '/small.'; URLs under the excluded asset paths are
\* dropped only in the catch-all tier.
C35_NormalizedDistinctCdnUrls ==
    fn_out # <<>> =>
        LET urls == fn_out[1]
        IN  /\ \A i, j \in 1..Len(urls) : i # j => urls[i] # urls[j]
            /\ \A i \in 1..Len(urls) :
                  /\ OnCdnHost(urls[i])
                  /\ ~has_run(urls[i], <<"?">>)
                  /\ ~has_run(urls[i], <<"/", "small", ".">>)
            /\ \A k \in 1..Len(fn_in) :
                  (InNamedTier(fn_in[k]) /\ fn_in[k].src = U_icon) =>
                      \E i \in 1..Len(urls) : urls[i] = U_icon
            /\ (\A k \in 1..Len(fn_in) : ~InNamedTier(fn_in[k])) =>
                  \A i \in 1..Len(urls) : ~is_asset_path(urls[i])

(***************************************************************************)
(* extract_products_from_page_online of src/analyze_online_vs_local.py,    *)
(* lines 103-212, on the same album links as extract_products_from_page.   *)
(* `children`: the product containers of the page are                      *)
(* <div class="categories__children">, each around one album link, so that *)
(* the first search (lines 115-157) sees them; otherwise it finds nothing  *)
(* and the second search (lines 160-210) runs over the links.              *)
(***************************************************************************)
\* re.match(r'^\d+$', s)
all_digits(s) == s # <<>> /\ \A i \in 1..Len(s) : s[i] \in Digits

\* lines 137-146
online_name_from_parts(parts) ==
    IF Len(parts) >= 2 THEN parts[2]
    ELSE IF Len(parts) = 1 /\ ~(all_digits(parts[1]) /\ Len(parts[1]) <= 2) THEN parts[1]
    ELSE <<>>

\* lines 148-152
online_name_accepted(product_name) ==
    /\ product_name # <<>>
    /\ product_name \notin invalid_final
    /\ ~startswith_http(product_name)
    /\ Len(strip(product_name)) >= 2

\* lines 200-205
online_fallback_name_accepted(product_name) ==
    /\ product_name # <<>>
    /\ Len(product_name) >= 2
    /\ product_name \notin invalid_final
    /\ ~startswith_http(product_name)
    /\ ~all_digits(product_name)
    /\ Len(strip(product_name)) >= 2

\* lines 154-157 and 207-210
online_product(link, product_name) ==
    [name |-> sanitize_filename(strip(product_name)), album_id |-> link.album]

\* lines 117-157: the containers, from container i on
RECURSIVE online_containers(_, _, _, _)
online_containers(links, i, seen_album_ids, prods) ==
    IF i > Len(links) THEN prods
    ELSE LET link == links[i]
             product_name == online_name_from_parts(link.parts)
             skip == online_containers(links, i + 1, seen_album_ids, prods)
         IN  IF link.kind = "no_id" THEN skip
             ELSE IF link.album \in seen_album_ids THEN skip
             ELSE IF ~online_name_accepted(product_name) THEN skip
             ELSE online_containers(links, i + 1, seen_album_ids \cup {link.album},
                                    Append(prods, online_product(link, product_name)))

\* lines 160-210: the album links, from link i on
RECURSIVE online_links(_, _, _, _)
online_links(links, i, seen_album_ids, prods) ==
    IF i > Len(links) THEN prods
    ELSE LET link == links[i]
             product_name == IF link.parts # <<>>
                             THEN name_from_lines(link.parts, Len(link.parts)) ELSE <<>>
             skip == online_links(links, i + 1, seen_album_ids, prods)
         IN  IF link.kind \in {"nav", "no_id"} THEN skip
             ELSE IF link.album \in seen_album_ids THEN skip
             ELSE IF ~online_fallback_name_accepted(product_name) THEN skip
             ELSE online_links(links, i + 1, seen_album_ids \cup {link.album},
                               Append(prods, online_product(link, product_name)))

\* lines 111-212
extract_products_from_page_online(links, children) ==
    LET found == IF children THEN online_containers(links, 1, {}, <<>>) ELSE <<>>
    IN  IF found = <<>> THEN online_links(links, 1, {}, <<>>) ELSE found

\* the texts of the product containers tried: "<photo count>|<name>"
ContainerTexts == {<<T_25, T_A>>, <<T_25, T_203>>, <<T_25, T_AsB>>, <<T_25, T_Home>>, <<T_25>>}

\* pages on which both extractors look at the same containers: every album
\* link is a product link with its own album id
ProductPages ==
    { page_ \in UNION { [1..n -> [album : AlbumIds, parts : ContainerTexts]] : n \in 0..MaxLinks } :
        \A i, j \in 1..Len(page_) : i # j => page_[i].album # page_[j].album }

container_links(page_) ==
    [i \in 1..Len(page_) |->
        [kind |-> "product", album |-> page_[i].album, q |-> 1, parts |-> page_[i].parts,
         headings |-> <<>>, link_text |-> T_25]]

\* the names of a product list
names_of(prods) == {prods[i].name : i \in 1..Len(prods)}

Init_Online ==
    /\ PureIdle
    /\ MainIdle
    /\ OrchIdle
    /\ \E page_ \in ProductPages : \E children \in BOOLEAN :
          fn_in = [links |-> container_links(page_), children |-> children]
    /\ fn_out = <<>>

Online_Call ==
    /\ fn_out = <<>>
    /\ fn_out' = <<[download |-> names_of(extract_products_from_page(fn_in.links).products),
                    online |-> names_of(extract_products_from_page_online(
                                            fn_in.links, fn_in.children))]>>
    /\ UNCHANGED <<fn_in, dlVars, authVars, exVars, mainVars, orchVars>>

Next_Online == Online_Call

Spec_Online == Init_Online /\ [][Next_Online]_vars

\* the only reasons for which the claim lets a resolved name be rejected
RejectableName(product_name) ==
    \/ product_name = <<>>
    \/ product_name \in invalid_final
    \/ startswith_http(product_name)

\* C36: name acceptance uses a minimum length of 1 in every product
\* extractor: a resolved name is rejected only if it is a UI literal, starts
\* with 'http' or is empty; every other name, a one-character name and a
\* purely numeric model code included, is accepted by the download extractor
\* and by the analysis extractor, so both return the same set of names for
\* the same page.
C36_SameNamesMinLengthOne ==
    fn_out # <<>> =>
        /\ \A k \in 1..Len(fn_in.links) :
              LET product_name == resolve_name(fn_in.links[k])
              IN  ~RejectableName(product_name) =>
                      /\ strip(product_name) \in fn_out[1].download
                      /\ sanitize_filename(strip(product_name)) \in fn_out[1].online
        /\ fn_out[1].download = fn_out[1].online

(***************************************************************************)
(* The category name of a job without a configured name, resolved twice:   *)
(* by the orchestrator (get_category_name over extract_category_name_fast, *)
(* download_multiple_collections.py lines 181-297) for the log file, and   *)
(* by the worker (main lines 634-666 over extract_category_name, lines     *)
(* 129-218) for the output directory.                                      *)
(*                                                                         *)
(* A page (soup) is what the searches can find in it, None when absent:    *)
(*   text    the name inside the category sentence of the page text        *)
(*   title   the same inside <title>                                       *)
(*   link    the text of the link to /categories/<id> (no ?page=)          *)
(*   series  the word ending in the series marker of an h1-h3 heading      *)
(*   crumb   the text, with the series marker, of a breadcrumb link        *)
(***************************************************************************)
T_Xseries == <<"X", "xi", "lie">>

\* the language names of the deny lists (lines 216, 139) that the texts tried can meet
language_names == {T_chinese, T_english}

\* the navigation literals of the longer deny lists (lines 237-238, 139-141)
navigation_names == {T_login, T_register, T_Home, T_AllCategories, T_Yupoo, T_search, T_QRcode}

\* lines 213-218 and 225-229 of the orchestrator: only language names are refused
fast_sentence_name(text) == IF text # None /\ text \notin language_names THEN text ELSE None

\* lines 146-151 and 157-162 of the worker: navigation literals are refused too
sentence_name(text) ==
    IF text # None /\ text \notin language_names \cup navigation_names THEN text ELSE None

\* lines 232-246 and 265-277 (worker: 165-178 and 195-207): the link text
link_name(text) ==
    IF /\ text # None
       /\ text \notin language_names \cup navigation_names
       /\ lower(text) \notin language_names
       /\ Len(text) >= 3
    THEN text ELSE None

\* lines 249-261 of the orchestrator
fast_series_name(text) == IF text # None /\ text \notin language_names THEN text ELSE None

\* lines 181-192 of the worker
series_name(text) ==
    IF text # None /\ text \notin language_names \cup navigation_names THEN text ELSE None

\* lines 210-216 of the worker: the breadcrumb, the worker's last search
crumb_name(text) ==
    IF text # None /\ text \notin language_names \cup navigation_names THEN text ELSE None

\* the first of the names that is there
RECURSIVE first_name(_)
first_name(names) ==
    IF names = <<>> THEN None
    ELSE IF Head(names) # None THEN Head(names)
    ELSE first_name(Tail(names))

\* what the four searches of extract_category_name_fast yield on the page
fast_tiers(soup) ==
    <<first_name(<<fast_sentence_name(soup.text), fast_sentence_name(soup.title)>>),
      link_name(soup.link),
      fast_series_name(soup.series),
      link_name(soup.link)>>

\* re.search(r'/categories/(\d+)', base_url) of the worker, lines 133-136 and 656
worker_category_id(url) == IF all_digits(url.id) THEN url.id ELSE None

\* extract_category_name of the worker, lines 129-218
extract_category_name(soup, category_id) ==
    first_name(<<sentence_name(soup.text), sentence_name(soup.title),
                 IF category_id # None THEN link_name(soup.link) ELSE None,
                 series_name(soup.series),
                 IF category_id # None THEN link_name(soup.link) ELSE None,
                 crumb_name(soup.crumb)>>)

\* worker main, lines 634-666, without --name: None when the worker returns
\* before it has a name (line 639)
worker_category_name(collection, pw, net) ==
    LET category_id == worker_category_id(collection.url)
        category_name == extract_category_name(net.soup, category_id)
    IN  IF pw /\ ~net.auth THEN None
        ELSE IF net.fetch = "raised" THEN T_Yupoo_Downloads          \* lines 663-665
        ELSE IF category_name # None THEN category_name              \* line 652
        ELSE IF category_id # None THEN T_Categoria_ \o category_id  \* line 658
        ELSE T_Yupoo_Downloads                                       \* line 661

\* the pages tried
Soups ==
    [text : {None, T_AsB, T_Home}, title : {None, T_AsB}, link : {None, T_AsB, T_88},
     series : {None, T_Xseries}, crumb : {None, T_Xseries}]

\* the jobs without a configured name
UnnamedJobs == {j \in NamedJobs : j.name = None /\ j.missing = "none"}

Init_SameName ==
    /\ PureIdle
    /\ MainIdle
    /\ OrchIdle
    /\ fn_in \in [collection : UnnamedJobs, password : BOOLEAN,
                  net : [auth : BOOLEAN, fetch : {"ok", "raised"}, soup : Soups]]
    /\ fn_out = <<>>

SameName_Call ==
    /\ fn_out = <<>>
    /\ LET net == [auth |-> fn_in.net.auth, fetch |-> fn_in.net.fetch,
                   tiers |-> fast_tiers(fn_in.net.soup)]
       IN  fn_out' = <<[orchestrator |->
                           get_category_name(fn_in.collection,
                               extract_category_name_fast(fn_in.password, net)),
                        worker |->
                           worker_category_name(fn_in.collection, fn_in.password,
                                                fn_in.net)]>>
    /\ UNCHANGED <<fn_in, dlVars, authVars, exVars, mainVars, orchVars>>

Next_SameName == SameName_Call

Spec_SameName == Init_SameName /\ [][Next_SameName]_vars

\* C39: for a job without a configured name, the category name the
\* orchestrator resolves (it names the log file) equals the category name the
\* launched worker resolves on its own for the same page content (it names
\* the output directory), for every page content and every extraction
\* outcome, the case where the extraction raises included.
C39_SameNameInLogAndDirectory ==
    (fn_out # <<>> /\ fn_out[1].worker # None) =>
        fn_out[1].orchestrator = fn_out[1].worker

====
